---- MODULE Spec2Model ----
(***************************************************************************)
(* Model of the file-upload subsystem of the bot: the upload handler, the  *)
(* delete handler, the JSON metadata index and the upload directory        *)
(* (web_server.py, file_index.py, helpers.py, config.py).                  *)
(*                                                                         *)
(* Handlers are asyncio coroutines: a handler runs without interruption    *)
(* from one await to the next, so every action below is the code between   *)
(* two consecutive awaits of one handler.  Files are modelled by their     *)
(* byte length, chunks by their length.                                    *)
(***************************************************************************)
EXTENDS Integers, Sequences, FiniteSets, TLC

\* ---------------------------------------------------------------- bounds
NumHandlers == 2      \* upload requests that can be in flight together
MaxUploads == 2       \* tokens generated in one behaviour
MaxFileBytes == 4     \* bytes one client sends at most
MaxTime == 1          \* distinct values of int(time.time())
CHUNK_SIZE == 2       \* most bytes one read_chunk() returns
PositiveLimit == 2    \* the positive value of MAX_IP_STORAGE_BYTES

Procs == 1..NumHandlers
Timestamps == 1..MaxTime
QuotaLimits == {-1, 0, PositiveLimit}
Filenames == {"a.txt"}
FieldNames == {"", "file", "avatar"}   \* "" stands for: no field at all

\* A request as far as the handlers read it: the entries of the
\* X-Forwarded-For header (<<>> when the header is absent) and the peer
\* address of the transport ("" when there is none).
Requests ==
    { [xff |-> <<>>, peer |-> "10.0.0.1"],
      [xff |-> <<"10.0.0.2", "10.0.0.1">>, peer |-> "10.0.0.1"] }

\* ------------------------------------------------------ pure functions
HexDigits == <<"0","1","2","3","4","5","6","7","8","9","a","b","c","d","e","f">>

\* mutant of uuid4_hex: every call returns the same value
uuid4_hex_Same(n) == "00"

\* uuid.uuid4().hex: a fixed-width lowercase hex string; the n-th call
\* returns a value no earlier call returned.
uuid4_hex(n) == HexDigits[((n \div 16) % 16) + 1] \o HexDigits[(n % 16) + 1]

AllTokens == { uuid4_hex(n) : n \in 0..(MaxUploads - 1) }

\* str.strip() on the header entries that occur
strip(e) ==
    CASE e = " 10.0.0.2 " -> "10.0.0.2"
      [] e = " 10.0.0.1"  -> "10.0.0.1"
      [] OTHER            -> e

\* mutant of client_ip_from_request: the header is ignored
client_ip_from_request_PeerOnly(request) ==
    IF request.peer # "" THEN request.peer ELSE "unknown"

\* xff is the X-Forwarded-For header split at its commas: <<>> when the
\* header is absent, <<"">> when it is the empty string
client_ip_from_request(request) ==
    IF request.xff # <<>> /\ request.xff # <<"">> THEN strip(request.xff[1])
    ELSE IF request.peer # "" THEN request.peer
    ELSE "unknown"

IPs == { client_ip_from_request(r) : r \in Requests }

\* ---- helpers.human_readable_size
Digits == <<"0","1","2","3","4","5","6","7","8","9">>
Units == <<"B", "KB", "MB", "GB", "TB">>

RECURSIVE IntStr(_)
\* str(int): the decimal digits of n
IntStr(n) ==
    IF n < 0 THEN "-" \o IntStr(0 - n)
    ELSE IF n < 10 THEN Digits[n + 1]
    ELSE IntStr(n \div 10) \o Digits[(n % 10) + 1]

\* n / d in hundredths, rounded to nearest, an exact half to the even
\* neighbour (the float n / d is exact for d a power of 1024, and the
\* format rounds its exact value)
Hundredths(n, d) ==
    LET h == (n * 100) \div d
        r == (n * 100) % d
    IN  IF 2 * r > d \/ (2 * r = d /\ h % 2 = 1) THEN h + 1 ELSE h

\* f"{size:.2f}" for size = n / d
Fixed2(n, d) ==
    LET h == Hundredths(n, d)
    IN  IntStr(h \div 100) \o "." \o Digits[((h \div 10) % 10) + 1] \o Digits[(h % 10) + 1]

RECURSIVE Pow1024(_)
Pow1024(e) == IF e = 0 THEN 1 ELSE 1024 * Pow1024(e - 1)

\* The size is kept as m * 1024^e / d, so that sizes up to the last unit and
\* beyond fit the integers of the model checker: dividing by 1024 lowers e
\* while it is positive and raises d afterwards (d is 1 while e > 0).

\* mutant of Below1024: the threshold belongs to the smaller unit
Below1024_Inclusive(m, e, d) == (IF e = 0 THEN m ELSE m * 1024) <= 1024 * d

\* size < 1024
Below1024(m, e, d) == (IF e = 0 THEN m ELSE m * 1024) < 1024 * d

\* f"{size:.2f}"
Fixed2Scaled(m, e, d) == IF e > 0 THEN IntStr(m * Pow1024(e)) \o ".00" ELSE Fixed2(m, d)

RECURSIVE UnitLoop(_, _, _, _)
\* for unit in units: ...; size /= 1024                  (unit is Units[k])
UnitLoop(m, e, d, k) ==
    IF Below1024(m, e, d) \/ k = Len(Units)
    THEN IF k = 1 THEN IntStr(m) \o " B"
         ELSE Fixed2Scaled(m, e, d) \o " " \o Units[k]
    ELSE IF e > 0 THEN UnitLoop(m, e - 1, d, k + 1)
         ELSE UnitLoop(m, 0, d * 1024, k + 1)

\* human_readable_size(m * 1024^e)
human_readable_size_scaled(m, e) == UnitLoop(m, e, 1, 1)

\* The arithmetic is exact while n * 100 fits a machine integer of the
\* model checker (sizes below 20 MB).
human_readable_size(n) == human_readable_size_scaled(n, 0)

\* mutant of Remaining: the operands swapped
Remaining_Swapped(limit, usage) == IF usage - limit > 0 THEN usage - limit ELSE 0

\* max(quota_limit - current_usage, 0)
Remaining(limit, usage) == IF limit - usage > 0 THEN limit - usage ELSE 0

\* the body of both quota rejections
QuotaBody(which, limit, usage, remaining) ==
    [status |-> 400, body |-> "quota exceeded (" \o which \o ")",
     limit |-> human_readable_size(limit), used |-> human_readable_size(usage),
     remaining |-> remaining]

\* saved_name = f"{token}-{filename}"
SavedName(tok, fname) == tok \o "-" \o fname

RECURSIVE SumSizes(_, _, _)
SumSizes(idx, toks, ip) ==
    IF toks = {} THEN 0
    ELSE LET t == CHOOSE x \in toks : TRUE
         IN  (IF idx[t].ip = ip THEN idx[t].size ELSE 0)
             + SumSizes(idx, toks \ {t}, ip)

\* sum(meta.get("size", 0) for meta in index.values() if meta.get("ip") == client_ip)
IpUsage(idx, ip) == SumSizes(idx, DOMAIN idx, ip)

\* mutant of MissingField: only the absent field is refused
MissingField_NoneOnly(field) == field = ""

\* if field is None or field.name != "file"
MissingField(field) == field = "" \/ field # "file"

\* mutants of PreflightReject: the check left out; the check with > for >=
PreflightReject_Off(limit, usage) == FALSE
PreflightReject_Strict(limit, usage) == limit > 0 /\ usage > limit

\* if current_usage >= quota_limit  (under quota_limit > 0)
PreflightReject(limit, usage) == limit > 0 /\ usage >= limit

\* mutants of QuotaHit: no mid-stream check; the check without quota_limit > 0
QuotaHit_Off(limit, usage, sz) == FALSE
QuotaHit_NoGuard(limit, usage, sz) == (usage + sz) > limit
\* mutant of QuotaHit: one byte of slack
QuotaHit_Late(limit, usage, sz) == limit > 0 /\ (usage + sz) > limit + 1

\* if quota_limit > 0 and (current_usage + size) > quota_limit
QuotaHit(limit, usage, sz) == limit > 0 /\ (usage + sz) > limit

\* dest.open("wb"): creates the file, or truncates an existing one
OpenWb(dir, name) == [n \in (DOMAIN dir) \cup {name} |-> IF n = name THEN 0 ELSE dir[n]]

\* f.write(chunk) on the open handle of name
WriteChunk(dir, name, n) == [dir EXCEPT ![name] = @ + n]

\* mutant of AddSize: counts chunks, not bytes
AddSize_CountsChunks(sz, n) == sz + 1

\* size += len(chunk)
AddSize(sz, n) == sz + n

\* mutant of Unlink: the directory is emptied
Unlink_All(dir, name) == [n \in {} |-> 0]

\* path.unlink(missing_ok=True)
Unlink(dir, name) == [n \in (DOMAIN dir) \ {name} |-> dir[n]]

\* mutant of CancelCleanup: the partial file is left behind
CancelCleanup_Keeps(dir, name) == dir

\* except asyncio.CancelledError: dest.unlink(missing_ok=True); raise
CancelCleanup(dir, name) == Unlink(dir, name)

\* mutant of ErrorCleanup: the partial file is left behind
ErrorCleanup_Keeps(dir, name) == dir

\* except Exception: dest.unlink(missing_ok=True); raise
ErrorCleanup(dir, name) == Unlink(dir, name)

\* mutant of QuotaCleanup: the partial file is left behind
QuotaCleanup_Keeps(dir, name) == dir

\* if quota_hit: dest.unlink(missing_ok=True)
QuotaCleanup(dir, name) == Unlink(dir, name)

\* the record handle_upload stores under index[token]
NewRecord(fname, sname, sz, ts, ip) ==
    [filename |-> fname, saved_name |-> sname, size |-> sz,
     timestamp |-> ts, ip |-> ip, uploader |-> "web"]

\* index[token] = {...}
PutRecord(idx, tok, rec) ==
    [t \in (DOMAIN idx) \cup {tok} |-> IF t = tok THEN rec ELSE idx[t]]

\* mutants of DelRecord: the whole index cleared; the entry kept
DelRecord_All(idx, tok) == [t \in {} |-> 0]
DelRecord_Keeps(idx, tok) == idx

\* del index[token]
DelRecord(idx, tok) == [t \in (DOMAIN idx) \ {tok} |-> idx[t]]

EmptyIndex == [t \in {} |-> 0]
NoResponse == [status |-> 0, body |-> "none"]
Cancelled == [status |-> -1, body |-> "CancelledError"]

\* ------------------------------------------------------------ state
VARIABLES
    MAX_IP_STORAGE_BYTES, \* config.MAX_IP_STORAGE_BYTES, fixed at start-up
    index_json,           \* the document in INDEX_PATH: token -> record
    upload_dir,           \* UPLOAD_DIR: file name -> byte length
    issued,               \* number of uuid4() calls made so far
    pc,                   \* where each upload handler is suspended
    token, filename, client_ip, index, current_usage,
    size, quota_hit, upload_completed,     \* locals of handle_upload
    response,             \* what the handler handed back to its caller
    deleted,              \* history: tokens a delete removed successfully
    overlap,              \* history: pairs of tokens that streamed together
    last_request,         \* the request the last step answered or parsed
    arg, result,          \* argument and result of a helper called on its own
    credentials,          \* users configured for the listing (environment and file)
    ALLOWED_USERS, AUTH_ENABLED,    \* globals set by refresh_allowed_users
    SESSION_TTL,          \* max(int(LISTING_SESSION_TTL), 0)
    bot                   \* the commands.Bot object: attributes set by on_ready

locals == <<token, filename, client_ip, index, current_usage, size,
            quota_hit, upload_completed>>
history == <<deleted, overlap>>
\* what no request handler assigns
auth == <<credentials, ALLOWED_USERS, AUTH_ENABLED, SESSION_TTL>>
fixed == <<MAX_IP_STORAGE_BYTES, arg, result, auth, bot>>
vars == <<fixed, index_json, upload_dir, issued, pc, locals,
          response, history, last_request>>

\* file_index.load_index / save_index: the whole document at once
load_index == index_json

dest(u) == SavedName(token[u], filename[u])

NoRequest == [op |-> "none"]
NoValue == [kind |-> "none"]

NoUsers == [u \in {} |-> ""]

\* the bot object before any on_ready: no session, web_runner or
\* listing_runner attribute; no runner set up, no site started, no port bound
NewBot ==
    [session |-> FALSE, web_runner |-> FALSE, listing_runner |-> FALSE,
     setups |-> [server \in {"upload", "listing"} |-> 0],
     starts |-> [server \in {"upload", "listing"} |-> 0],
     bound |-> {}]

\* the listing application created with no credential configured
InitAuth ==
    /\ credentials = NoUsers
    /\ ALLOWED_USERS = NoUsers
    /\ AUTH_ENABLED = FALSE
    /\ SESSION_TTL = 0

\* the upload handlers right after start-up
InitHandlers ==
    /\ issued = 0
    /\ pc = [u \in Procs |-> "idle"]
    /\ token = [u \in Procs |-> ""]
    /\ filename = [u \in Procs |-> ""]
    /\ client_ip = [u \in Procs |-> ""]
    /\ index = [u \in Procs |-> EmptyIndex]
    /\ current_usage = [u \in Procs |-> 0]
    /\ size = [u \in Procs |-> 0]
    /\ quota_hit = [u \in Procs |-> FALSE]
    /\ upload_completed = [u \in Procs |-> FALSE]
    /\ response = [u \in Procs |-> NoResponse]
    /\ bot = NewBot
    /\ deleted = {}
    /\ overlap = {}
    /\ last_request = NoRequest

InitState ==
    /\ index_json = EmptyIndex
    /\ upload_dir = EmptyIndex
    /\ InitHandlers
    /\ InitAuth

Init ==
    /\ MAX_IP_STORAGE_BYTES \in QuotaLimits
    /\ InitState
    /\ arg = NoValue
    /\ result = NoValue

\* ----------------------------------------------------- handle_upload
\* The handler returns or raises: its frame is gone.  token, filename and
\* client_ip stay readable in the model so that the outcome can be compared
\* with the disk and the index.
Return(u, resp) ==
    /\ pc' = [pc EXCEPT ![u] = "done"]
    /\ response' = [response EXCEPT ![u] = resp]
    /\ index' = [index EXCEPT ![u] = EmptyIndex]
    /\ current_usage' = [current_usage EXCEPT ![u] = 0]
    /\ size' = [size EXCEPT ![u] = 0]
    /\ quota_hit' = [quota_hit EXCEPT ![u] = FALSE]
    /\ upload_completed' = [upload_completed EXCEPT ![u] = FALSE]

\* A POST /api/upload arrives; the handler awaits request.multipart() and
\* reader.next().
UploadRequest(u) ==
    /\ pc[u] \in {"idle", "done"}
    /\ issued < MaxUploads
    /\ pc' = [pc EXCEPT ![u] = "multipart"]
    /\ token' = [token EXCEPT ![u] = ""]
    /\ filename' = [filename EXCEPT ![u] = ""]
    /\ client_ip' = [client_ip EXCEPT ![u] = ""]
    /\ response' = [response EXCEPT ![u] = NoResponse]
    /\ last_request' = NoRequest
    /\ UNCHANGED <<fixed, index_json, upload_dir, issued,
                   index, current_usage, size, quota_hit,
                   upload_completed, history>>

\* The request is cancelled before the first field has been parsed.
CancelMultipart(u) ==
    /\ pc[u] = "multipart"
    /\ Return(u, Cancelled)
    /\ last_request' = NoRequest
    /\ UNCHANGED <<fixed, index_json, upload_dir, issued,
                   token, filename, client_ip, history>>

\* reader.next() returned: lines 307-342, up to the first read_chunk().
UploadField(u, field, fname, request) ==
    /\ pc[u] = "multipart"
    /\ IF MissingField(field)
       THEN /\ Return(u, [status |-> 400, body |-> "missing file field"])
            /\ UNCHANGED <<index_json, upload_dir, issued, token, filename,
                           client_ip, history>>
       ELSE LET tok == uuid4_hex(issued)
                ip == client_ip_from_request(request)
                idx == load_index
                limit == MAX_IP_STORAGE_BYTES
                usage == IF limit > 0 THEN IpUsage(idx, ip) ELSE 0
            IN  /\ issued' = issued + 1
                /\ token' = [token EXCEPT ![u] = tok]
                /\ filename' = [filename EXCEPT ![u] = fname]
                /\ client_ip' = [client_ip EXCEPT ![u] = ip]
                /\ UNCHANGED <<index_json, deleted>>
                /\ IF PreflightReject(limit, usage)
                   THEN /\ Return(u, QuotaBody("pre-flight", limit, usage, "0 B"))
                        /\ UNCHANGED <<upload_dir, overlap>>
                   ELSE /\ pc' = [pc EXCEPT ![u] = "read_chunk"]
                        /\ index' = [index EXCEPT ![u] = idx]
                        /\ current_usage' = [current_usage EXCEPT ![u] = usage]
                        /\ upload_dir' = OpenWb(upload_dir, SavedName(tok, fname))
                        /\ overlap' = overlap \cup
                               { {tok, token[v]} : v \in {w \in Procs : pc[w] = "read_chunk"} }
                        /\ UNCHANGED <<size, quota_hit, upload_completed, response>>
    /\ last_request' = [op |-> "upload", field |-> field]
    /\ UNCHANGED fixed

\* read_chunk() returned n bytes: lines 345-352 and, on a quota hit, 364-377.
\* An abort leaves the number of bytes written so far in last_request.
ReadChunk(u, n) ==
    /\ pc[u] = "read_chunk"
    /\ size[u] + n <= MaxFileBytes
    /\ LET written == WriteChunk(upload_dir, dest(u), n)
           sz == AddSize(size[u], n)
       IN  IF QuotaHit(MAX_IP_STORAGE_BYTES, current_usage[u], sz)
           THEN /\ upload_dir' = QuotaCleanup(written, dest(u))
                /\ Return(u, QuotaBody("mid-stream", MAX_IP_STORAGE_BYTES, current_usage[u],
                              human_readable_size(Remaining(MAX_IP_STORAGE_BYTES,
                                                            current_usage[u]))))
                /\ last_request' = [op |-> "quota_abort", handler |-> u, written |-> sz]
           ELSE /\ upload_dir' = written
                /\ size' = [size EXCEPT ![u] = sz]
                /\ last_request' = NoRequest
                /\ UNCHANGED <<pc, response, index, current_usage,
                               quota_hit, upload_completed>>
    /\ UNCHANGED <<fixed, index_json, issued, token, filename,
                   client_ip, history>>

\* read_chunk() returned b"": the loop ends, the file is closed and the
\* finally block awaits field.release().
ReadEOF(u) ==
    /\ pc[u] = "read_chunk"
    /\ upload_completed' = [upload_completed EXCEPT ![u] = TRUE]
    /\ pc' = [pc EXCEPT ![u] = "release"]
    /\ last_request' = NoRequest
    /\ UNCHANGED <<fixed, index_json, upload_dir, issued, token,
                   filename, client_ip, index, current_usage, size, quota_hit,
                   response, history>>

\* read_chunk() or f.write() raised: lines 356-358, then error_middleware.
\* The bytes written before the error are left in last_request.
ReadError(u) ==
    /\ pc[u] = "read_chunk"
    /\ upload_dir' = ErrorCleanup(upload_dir, dest(u))
    /\ Return(u, [status |-> 500, body |-> "error"])
    /\ last_request' = [op |-> "io_error", handler |-> u, written |-> size[u]]
    /\ UNCHANGED <<fixed, index_json, issued, token, filename,
                   client_ip, history>>

\* The request is cancelled while read_chunk() is awaited: lines 353-355.
CancelChunk(u) ==
    /\ pc[u] = "read_chunk"
    /\ upload_dir' = CancelCleanup(upload_dir, dest(u))
    /\ Return(u, [status |-> -1, body |-> "CancelledError in read_chunk"])
    /\ last_request' = NoRequest
    /\ UNCHANGED <<fixed, index_json, issued, token, filename,
                   client_ip, history>>

\* field.release() returned (or raised an Exception, which is suppressed):
\* lines 364 and 379-390.
ReleaseDone(u, ts) ==
    /\ pc[u] = "release"
    /\ LET rec == NewRecord(filename[u], dest(u), size[u], ts, client_ip[u])
       IN  index_json' = PutRecord(index[u], token[u], rec)
    /\ Return(u, [status |-> 200, body |-> token[u]])
    /\ last_request' = NoRequest
    /\ UNCHANGED <<fixed, upload_dir, issued, token, filename,
                   client_ip, history>>

\* The request is cancelled while field.release() is awaited in the finally
\* block: contextlib.suppress(Exception) does not catch CancelledError and
\* the except clauses of the try statement do not cover its finally block.
CancelRelease(u) ==
    /\ pc[u] = "release"
    /\ Return(u, [status |-> -1, body |-> "CancelledError in release"])
    /\ last_request' = NoRequest
    /\ UNCHANGED <<fixed, index_json, upload_dir, issued, token,
                   filename, client_ip, history>>

\* ----------------------------------------------------- handle_delete
\* DELETE /api/delete/{token}: the handler has no await, it runs as one step.
\* mutant of DeleteAllowed: the requester's address is not compared
DeleteAllowed_AnyIp(idx, tok, ip) == tok \in DOMAIN idx

DeleteAllowed(idx, tok, ip) == tok \in DOMAIN idx /\ idx[tok].ip = ip

\* raise web.HTTPNotFound (404, passed on by error_middleware); 403; {"ok": True}
DeleteStatus(idx, tok, ip) ==
    IF tok \notin DOMAIN idx THEN 404
    ELSE IF idx[tok].ip # ip THEN 403
    ELSE 200

\* what handle_delete does to the disk and the index
DeleteEffect(tok, request) ==
    LET idx == load_index
        ip == client_ip_from_request(request)
    IN  IF DeleteAllowed(idx, tok, ip)
        THEN /\ upload_dir' = Unlink(upload_dir, idx[tok].saved_name)
             /\ index_json' = DelRecord(idx, tok)
             /\ deleted' = deleted \cup {tok}
        ELSE UNCHANGED <<upload_dir, index_json, deleted>>

Delete(tok, request) ==
    /\ DeleteAllowed(load_index, tok, client_ip_from_request(request))
    /\ DeleteEffect(tok, request)
    /\ last_request' = NoRequest
    /\ UNCHANGED <<fixed, issued, pc, locals, response, overlap>>

\* A delete that is refused (404 unknown token, 403 other IP) changes nothing.
DeleteRefused(tok, request) ==
    /\ ~DeleteAllowed(load_index, tok, client_ip_from_request(request))
    /\ DeleteEffect(tok, request)
    /\ last_request' = NoRequest
    /\ UNCHANGED <<fixed, issued, pc, locals, response, overlap>>

\* The same handler with its request and its answer kept in last_request.
DeleteRequest(tok, ip, st) == [op |-> "delete", token |-> tok, ip |-> ip, status |-> st]

DeleteAnswered(tok, request) ==
    /\ DeleteEffect(tok, request)
    /\ last_request' = DeleteRequest(tok, client_ip_from_request(request),
                           DeleteStatus(load_index, tok, client_ip_from_request(request)))
    /\ UNCHANGED <<fixed, issued, pc, locals, response, overlap>>

\* ------------------------------------- handle_file_info, handle_get_file
\* The two read handlers have no await and assign nothing: each is a function
\* of the index document, the upload directory and the request.

\* mutant of FileExists: the check left out
FileExists_Always(dir, name) == TRUE

\* path.exists()
FileExists(dir, name) == name \in DOMAIN dir

\* GET /api/file/{token}.  The mime_type and preview members of the answer
\* are those of build_preview_payload and are left out here.
file_info(idx, dir, tok) ==
    IF tok \notin DOMAIN idx
    THEN [status |-> 404, error |-> "not found"]
    ELSE IF ~FileExists(dir, idx[tok].saved_name)
    THEN [status |-> 404, error |-> "file missing"]
    ELSE [status |-> 200, token |-> tok, filename |-> idx[tok].filename,
          size |-> idx[tok].size,
          size_readable |-> human_readable_size(idx[tok].size),
          timestamp |-> idx[tok].timestamp]

handle_file_info(tok) == file_info(load_index, upload_dir, tok)

\* GET /api/files on the upload surface.  The answer is a JSON array in the
\* order of the index document; it is kept here as the set of its items,
\* without the url member (make_file_url of the token).
ListRequests ==
    Requests \cup
    { [xff |-> <<" 10.0.0.2 ", " 10.0.0.1">>, peer |-> "10.0.0.1"],
      [xff |-> <<"">>, peer |-> "10.0.0.2"],
      [xff |-> <<"10.0.0.1">>, peer |-> "10.0.0.2"] }

ListItem(idx, tok) ==
    [token |-> tok, filename |-> idx[tok].filename, size |-> idx[tok].size,
     timestamp |-> idx[tok].timestamp]

handle_list(request) ==
    LET idx == load_index
        ip == client_ip_from_request(request)
    IN  {ListItem(idx, tok) : tok \in {t \in DOMAIN idx : idx[t].ip = ip}}

\* which pages of the website directory exist
Sites == [not_found_page : BOOLEAN, preview_template : BOOLEAN, download_page : BOOLEAN]
RawModes == {"absent", "", "1", "inline"}   \* request.query.get("raw")
PreviewModes == {"absent", "0", "1"}        \* request.query.get("preview")

\* mutant of ForcesDownload: no Content-Disposition at all
ForcesDownload_Never(raw) == FALSE

\* raw_mode != "inline"
ForcesDownload(raw) == raw # "inline"

\* file_not_found_page(): the rendered page, or plain text, both with 404
file_not_found_page(site) ==
    [status |-> 404,
     content |-> IF site.not_found_page THEN "listing_not_found.html" ELSE "file not found"]

\* GET /files/{token}
get_file(idx, dir, tok, raw, preview, site) ==
    IF tok \notin DOMAIN idx THEN file_not_found_page(site)
    ELSE IF ~FileExists(dir, idx[tok].saved_name) THEN file_not_found_page(site)
    ELSE IF raw # "absent"
    THEN [status |-> 200, content |-> idx[tok].saved_name,
          disposition |-> IF ForcesDownload(raw) THEN idx[tok].filename ELSE ""]
    ELSE IF preview = "1"
    THEN IF ~site.preview_template
         THEN [status |-> 500, content |-> "preview template missing"]
         ELSE [status |-> 200, content |-> "preview.html"]
    ELSE IF site.download_page
    THEN [status |-> 200, content |-> "download.html"]
    ELSE [status |-> 404, content |-> "download page not found"]

handle_get_file(tok, raw, preview, site) ==
    get_file(load_index, upload_dir, tok, raw, preview, site)

\* ------------------------------------------------- file_index.load_index
\* What INDEX_PATH can hold.  A text is described by the JSON value it
\* spells, or as invalid when it spells none: object holds the members of
\* an object, items the elements of an array, the value of a number or the
\* characters of a string.
MaxItems == 3
MaxNumber == 2

JsonNumbers == 0 .. MaxNumber
JsonArrays == UNION {[1 .. n -> JsonNumbers] : n \in 0 .. MaxItems}
LoadTokens == {uuid4_hex(1), uuid4_hex(2)}
StoredRecords ==
    {NewRecord(f, SavedName(uuid4_hex(1), f), sz, 0, "10.0.0.1") : f \in Filenames, sz \in 0 .. 1}
JsonObjects == UNION {[S -> StoredRecords] : S \in SUBSET LoadTokens}

JsonText(json, object, items) == [json |-> json, object |-> object, items |-> items]

JsonTexts ==
    {JsonText("object", o, <<>>) : o \in JsonObjects}
    \cup {JsonText("array", EmptyIndex, a) : a \in JsonArrays}
    \cup {JsonText("number", EmptyIndex, <<n>>) : n \in JsonNumbers}
    \cup {JsonText("string", EmptyIndex, a) : a \in {<<>>, <<0>>}}
    \cup {JsonText(lit, EmptyIndex, <<>>) : lit \in {"null", "true", "false"}}
    \cup {JsonText("invalid", EmptyIndex, <<n>>) : n \in JsonNumbers}

\* missing: INDEX_PATH.exists() is false; unreadable: read_text raises
IndexFiles ==
    {[kind |-> "index_file", state |-> st, text |-> JsonText("invalid", EmptyIndex, <<>>)] :
        st \in {"missing", "unreadable"}}
    \cup {[kind |-> "index_file", state |-> "text", text |-> t] : t \in JsonTexts}

\* the Python type json.loads builds for each JSON value
PyType(json) ==
    CASE json = "object" -> "dict"
      [] json = "array"  -> "list"
      [] json = "number" -> "int"
      [] json = "string" -> "str"
      [] json = "null"   -> "NoneType"
      [] OTHER           -> "bool"

JsonDecodeError(text) == text.json = "invalid"

json_loads(text) == [type |-> PyType(text.json), object |-> text.object, items |-> text.items]

PyDict(object) == [type |-> "dict", object |-> object, items |-> <<>>]

\* load_index() as a function of the file it reads
load_index_of(file) ==
    IF file.state = "missing" THEN PyDict(EmptyIndex)
    ELSE IF file.state = "unreadable" \/ JsonDecodeError(file.text) THEN PyDict(EmptyIndex)
    ELSE json_loads(file.text)

\* ---------------------------------------------- helpers.build_preview_payload
\* Filenames are sequences of characters, so that the suffix is computed.
UpperCase == <<"A","B","C","D","E","F","G","H","I","J","K","L","M",
               "N","O","P","Q","R","S","T","U","V","W","X","Y","Z">>
LowerCase == <<"a","b","c","d","e","f","g","h","i","j","k","l","m",
               "n","o","p","q","r","s","t","u","v","w","x","y","z">>

lower(c) ==
    IF \E i \in DOMAIN UpperCase : UpperCase[i] = c
    THEN LowerCase[CHOOSE i \in DOMAIN UpperCase : UpperCase[i] = c]
    ELSE c

RECURSIVE Str(_)
Str(cs) == IF cs = <<>> THEN "" ELSE cs[1] \o Str(Tail(cs))

\* position of the last occurrence of c in cs, 0 when there is none
RFind(cs, c) ==
    IF \E i \in DOMAIN cs : cs[i] = c
    THEN CHOOSE i \in DOMAIN cs : cs[i] = c /\ \A j \in DOMAIN cs : cs[j] = c => j <= i
    ELSE 0

\* pathlib.Path(filename).name
PathName(cs) == SubSeq(cs, RFind(cs, "/") + 1, Len(cs))

\* pathlib.Path(filename).suffix: from the last dot of the name, unless the
\* dot is the first or the last character of the name
suffix(cs) ==
    LET name == PathName(cs)
        i == RFind(name, ".")
    IN  IF 1 < i /\ i < Len(name) THEN SubSeq(name, i, Len(name)) ELSE <<>>

file_ext(cs) == Str([i \in DOMAIN suffix(cs) |-> lower(suffix(cs)[i])])

IMAGE_EXTENSIONS == {".png", ".jpg", ".jpeg", ".gif", ".bmp", ".webp"}
VIDEO_EXTENSIONS == {".mp4", ".webm", ".mov", ".mkv", ".avi"}
AUDIO_EXTENSIONS == {".mp3", ".wav", ".ogg", ".m4a", ".aac", ".flac"}
TEXT_EXTENSIONS == {".txt", ".md", ".log", ".json", ".csv", ".py", ".js", ".ts",
                    ".html", ".css", ".yaml", ".yml", ".ini", ".cfg"}

\* the MIME hint: None, or the string type "/" subtype
NoMime == [present |-> FALSE, type |-> "", subtype |-> ""]
Mime(type, subtype) == [present |-> TRUE, type |-> type, subtype |-> subtype]

\* mime_type and mime_type.startswith(prefix "/")
StartsWith(mime, prefix) == mime.present /\ mime.type = prefix
\* mime_type == type "/" subtype
IsMime(mime, type, subtype) == mime.present /\ mime.type = type /\ mime.subtype = subtype

PreviewCap == 4000

\* the file at path: absent or undecodable (open or read raises), or its length
NoFile == 0 - 1
PathFiles == {NoFile, 0, 1, PreviewCap, PreviewCap + 1}

\* f.read(4000), by its length; "" when the open or the read raises
snippet(file) == IF file = NoFile THEN 0 ELSE IF file < PreviewCap THEN file ELSE PreviewCap
\* mutant of has_more: a file of exactly the cap counts as truncated
has_more_AtCap(file) == file # NoFile /\ file >= PreviewCap

\* f.read(1) after it
has_more(file) == file # NoFile /\ file > PreviewCap

\* mutant of Rules: video is tried before image
Rules_VideoFirst == <<"video", "image", "audio", "pdf", "text">>

\* the order of the if statements
Rules == <<"image", "video", "audio", "pdf", "text">>

\* the condition of the if statement of each kind
Matches(kind, mime, ext) ==
    CASE kind = "image" -> StartsWith(mime, "image") \/ ext \in IMAGE_EXTENSIONS
      [] kind = "video" -> StartsWith(mime, "video") \/ ext \in VIDEO_EXTENSIONS
      [] kind = "audio" -> StartsWith(mime, "audio") \/ ext \in AUDIO_EXTENSIONS
      [] kind = "pdf"   -> IsMime(mime, "application", "pdf") \/ ext = ".pdf"
      [] OTHER          -> \/ StartsWith(mime, "text")
                           \/ IsMime(mime, "application", "json")
                           \/ ext \in TEXT_EXTENSIONS

KindNone == [kind |-> "none"]

\* mutant of Payload: every kind needs the file to be there
Payload_NeedsFile(kind, file) == IF file = NoFile THEN KindNone ELSE [kind |-> kind]

\* the body of the if statement of each kind; the text branch falls through
\* to the final return when the snippet is empty
Payload(kind, file) ==
    IF kind # "text" THEN [kind |-> kind]
    ELSE IF snippet(file) > 0
         THEN [kind |-> "text", snippet |-> snippet(file), truncated |-> has_more(file)]
         ELSE KindNone

build_preview_payload(file, fname, mime) ==
    LET ext == file_ext(fname)
        hit == {i \in DOMAIN Rules : Matches(Rules[i], mime, ext)}
    IN  IF hit = {} THEN KindNone
        ELSE Payload(Rules[CHOOSE i \in hit : \A j \in hit : i <= j], file)

PreviewNames ==
    {<<"a", ".", "p", "n", "g">>,
     <<"a", ".", "P", "N", "G">>,
     <<"a", ".", "J", "p", "e", "g">>,
     <<"a", ".", "m", "p", "4">>,
     <<"a", ".", "m", "p", "3">>,
     <<"a", ".", "p", "d", "f">>,
     <<"a", ".", "t", "x", "t">>,
     <<"a", ".", "b", "i", "n">>,
     <<"a">>,
     <<".", "p", "n", "g">>,
     <<"a", ".">>,
     <<"a", ".", "p", "n", "g", ".", "t", "x", "t">>,
     <<"a", ".", "t", "x", "t", ".", "p", "n", "g">>,
     <<"d", "/", "a", ".", "m", "k", "v">>}

Mimes ==
    {NoMime, Mime("image", "png"), Mime("video", "mp4"), Mime("audio", "mpeg"),
     Mime("application", "pdf"), Mime("text", "plain"), Mime("application", "json"),
     Mime("application", "octet-stream")}

\* sizes m * 1024^e around each threshold, up to 1024 times the last unit
Mantissas == {0, 1, 1023, 1024, 1025, 1536, 1048575, 1048576, 1572864}
Exponents == 0 .. Len(Units)
SizeInputs == {[kind |-> "size", m |-> m, e |-> e] : m \in Mantissas, e \in Exponents}

PreviewInputs ==
    {[kind |-> "preview_input", path |-> f, filename |-> n, mime_type |-> m] :
        f \in PathFiles, n \in PreviewNames, m \in Mimes}

\* ------------------------------------------------------------- system
Next ==
    \/ \E u \in Procs : UploadRequest(u)
    \/ \E u \in Procs : CancelMultipart(u)
    \/ \E u \in Procs, field \in FieldNames, fname \in Filenames, request \in Requests :
           UploadField(u, field, fname, request)
    \/ \E u \in Procs, n \in 1..CHUNK_SIZE : ReadChunk(u, n)
    \/ \E u \in Procs : ReadEOF(u)
    \/ \E u \in Procs : ReadError(u)
    \/ \E u \in Procs : CancelChunk(u)
    \/ \E u \in Procs, ts \in Timestamps : ReleaseDone(u, ts)
    \/ \E u \in Procs : CancelRelease(u)
    \/ \E tok \in AllTokens, request \in Requests : Delete(tok, request)
    \/ \E tok \in AllTokens, request \in Requests : DeleteRefused(tok, request)

Spec == Init /\ [][Next]_vars

\* The upload surface with every delete request and its answer observed;
\* the quota plays no part in handle_delete and is switched off.
InitApi ==
    /\ MAX_IP_STORAGE_BYTES = 0
    /\ InitState
    /\ arg = NoValue
    /\ result = NoValue

NextApi ==
    \/ \E u \in Procs : UploadRequest(u)
    \/ \E u \in Procs : CancelMultipart(u)
    \/ \E u \in Procs, field \in FieldNames, fname \in Filenames, request \in Requests :
           UploadField(u, field, fname, request)
    \/ \E u \in Procs, n \in 1..CHUNK_SIZE : ReadChunk(u, n)
    \/ \E u \in Procs : ReadEOF(u)
    \/ \E u \in Procs : ReadError(u)
    \/ \E u \in Procs : CancelChunk(u)
    \/ \E u \in Procs, ts \in Timestamps : ReleaseDone(u, ts)
    \/ \E u \in Procs : CancelRelease(u)
    \/ \E tok \in AllTokens, request \in Requests : DeleteAnswered(tok, request)

SpecApi == InitApi /\ [][NextApi]_vars

\* Uploads one after another: a request is handled only while no other
\* upload handler is in flight, and nothing is deleted.
Sequential(u) == \A v \in Procs \ {u} : pc[v] \in {"idle", "done"}

NextSeq ==
    \/ \E u \in Procs : Sequential(u) /\ UploadRequest(u)
    \/ \E u \in Procs : Sequential(u) /\ CancelMultipart(u)
    \/ \E u \in Procs, field \in FieldNames, fname \in Filenames, request \in Requests :
           Sequential(u) /\ UploadField(u, field, fname, request)
    \/ \E u \in Procs, n \in 1..CHUNK_SIZE : Sequential(u) /\ ReadChunk(u, n)
    \/ \E u \in Procs : Sequential(u) /\ ReadEOF(u)
    \/ \E u \in Procs : Sequential(u) /\ ReadError(u)
    \/ \E u \in Procs : Sequential(u) /\ CancelChunk(u)
    \/ \E u \in Procs, ts \in Timestamps : Sequential(u) /\ ReleaseDone(u, ts)
    \/ \E u \in Procs : Sequential(u) /\ CancelRelease(u)

SpecSeq == Init /\ [][NextSeq]_vars

\* ----------------------------------------------------- error_middleware
\* MAX_UPLOAD_BYTES: 5 * 1024 * 1024 * 1024 by default, as m * 1024^e
MAX_UPLOAD_BYTES == [m |-> 5, e |-> 3]

\* the classes an exception class derives from, itself included
Bases(class) ==
    CASE class = "HTTPRequestEntityTooLarge" ->
             {"HTTPRequestEntityTooLarge", "HTTPException", "Exception", "BaseException"}
      [] class \in {"HTTPNotFound", "HTTPForbidden", "HTTPFound"} ->
             {class, "HTTPException", "Exception", "BaseException"}
      [] class \in {"OSError", "ValueError"} ->
             {class, "Exception", "BaseException"}
      [] class = "CancelledError" ->
             {"CancelledError", "BaseException"}

ExceptionClasses ==
    {"HTTPRequestEntityTooLarge", "HTTPNotFound", "HTTPForbidden", "HTTPFound",
     "OSError", "ValueError", "CancelledError"}

\* mutant of Catches: asyncio.CancelledError as a subclass of Exception
Catches_Cancelled(exc, class) == class \in Bases(exc.class) \cup {"Exception"}

\* except <class>: the clause takes the exception
Catches(exc, class) == class \in Bases(exc.class)

\* exc.status of an HTTP exception
StatusOf(class) ==
    CASE class = "HTTPRequestEntityTooLarge" -> 413
      [] class = "HTTPNotFound" -> 404
      [] class = "HTTPForbidden" -> 403
      [] class = "HTTPFound" -> 302
      [] OTHER -> 0

\* what the handler can raise: the class, str(exc), and for an
\* entity-too-large condition its max_size (m * 1024^e; 0 is falsy)
Exceptions ==
    { [class |-> c, text |-> t, max_size |-> [m |-> 0, e |-> 0]] :
          c \in ExceptionClasses \ {"HTTPRequestEntityTooLarge"},
          t \in {"", "disk full"} }
    \cup
    { [class |-> "HTTPRequestEntityTooLarge", text |-> "",
       max_size |-> [m |-> m, e |-> e]] : m \in {0, 1, 5}, e \in {0, 2, 3} }

\* what `await handler(request)` can end with
HandlerOutcomes ==
    { [kind |-> "handler_outcome", raised |-> FALSE,
       response |-> [status |-> st, json |-> [error |-> ""]],
       exc |-> [class |-> "", text |-> "", max_size |-> [m |-> 0, e |-> 0]]] :
          st \in {200, 400} }
    \cup
    { [kind |-> "handler_outcome", raised |-> TRUE,
       response |-> [status |-> 0, json |-> [error |-> ""]],
       exc |-> x] : x \in Exceptions }

\* exc.max_size or MAX_UPLOAD_BYTES
MaxSizeOr(max_size, default) == IF max_size.m = 0 THEN default ELSE max_size

\* error_middleware: lines 264-273; the except clauses are tried in order
error_middleware(outcome) ==
    IF ~outcome.raised
    THEN [raised |-> FALSE, response |-> outcome.response, exc |-> outcome.exc]
    ELSE LET exc == outcome.exc
             limit == MaxSizeOr(exc.max_size, MAX_UPLOAD_BYTES)
         IN  IF Catches(exc, "HTTPRequestEntityTooLarge")
             THEN [raised |-> FALSE,
                   response |->
                       [status |-> StatusOf(exc.class),
                        json |-> [error |-> "file too large, limit: "
                                      \o human_readable_size_scaled(limit.m, limit.e)]],
                   exc |-> exc]
             ELSE IF Catches(exc, "HTTPException")
             THEN [raised |-> TRUE, response |-> outcome.response, exc |-> exc]
             ELSE IF Catches(exc, "Exception")
             THEN [raised |-> FALSE,
                   response |-> [status |-> 500, json |-> [error |-> exc.text]],
                   exc |-> exc]
             ELSE [raised |-> TRUE, response |-> outcome.response, exc |-> exc]

\* ------------------------------------------------------- sanitize_next
\* The next parameter as its characters; None when the form and the query
\* have none.
MaxTarget == 5        \* characters of the next parameter

TargetChars == {"/", "%", "2", "F", "f", "x"}
HexChars == {"2", "F", "f"}
Targets ==
    {[kind |-> "next", none |-> TRUE, chars |-> <<>>]}
    \cup {[kind |-> "next", none |-> FALSE, chars |-> cs] :
              cs \in UNION {[1 .. n -> TargetChars] : n \in 0 .. MaxTarget}}

\* the character of the byte %hi lo: 0x22, 0x2F, or a byte that is no UTF-8
\* text on its own and is replaced (errors="replace")
HexByte(hi, lo) ==
    IF hi = "2" /\ lo = "2" THEN "\""
    ELSE IF hi = "2" /\ lo \in {"F", "f"} THEN "/"
    ELSE "U+FFFD"

RECURSIVE unquote(_)
\* urllib.parse.unquote: each % followed by two hex digits is replaced by
\* its byte, any other % stays
unquote(cs) ==
    IF cs = <<>> THEN <<>>
    ELSE IF cs[1] = "%" /\ Len(cs) >= 3 /\ cs[2] \in HexChars /\ cs[3] \in HexChars
    THEN <<HexByte(cs[2], cs[3])>> \o unquote(SubSeq(cs, 4, Len(cs)))
    ELSE <<cs[1]>> \o unquote(Tail(cs))

\* str.startswith
startswith(cs, prefix) ==
    Len(cs) >= Len(prefix) /\ SubSeq(cs, 1, Len(prefix)) = prefix

\* mutant of sanitize_next: the tests are made on the text before decoding
sanitize_next_Undecoded(target) ==
    IF target.none \/ target.chars = <<>> THEN <<"/">>
    ELSE IF ~startswith(target.chars, <<"/">>) THEN <<"/">>
    ELSE IF startswith(target.chars, <<"/", "/">>) THEN <<"/">>
    ELSE unquote(target.chars)

\* sanitize_next: lines 140-151
sanitize_next(target) ==
    IF target.none \/ target.chars = <<>> THEN <<"/">>
    ELSE LET candidate == unquote(target.chars)
         IN  IF ~startswith(candidate, <<"/">>) THEN <<"/">>
             ELSE IF startswith(candidate, <<"/", "/">>) THEN <<"/">>
             ELSE candidate

\* listing_origin(request): scheme://host of the listing
ListingOrigin == <<"h", "t", "t", "p", ":", "/", "/", "h">>

\* build_listing_url: lines 234-238
build_listing_url(next_path) ==
    IF next_path = <<>> \/ next_path = <<"/">>
    THEN ListingOrigin \o <<"/">>
    ELSE ListingOrigin \o next_path

\* handle_login_submit with credentials that verify: the Location of the
\* HTTPFound it raises, lines 557-558
SanitizeNext ==
    /\ arg.kind = "next"
    /\ result = NoValue
    /\ result' = [kind |-> "sanitize_next", value |-> sanitize_next(arg),
                  location |-> build_listing_url(sanitize_next(arg))]
    /\ UNCHANGED <<MAX_IP_STORAGE_BYTES, arg, auth, bot, index_json, upload_dir, issued, pc,
                   locals, response, history, last_request>>

\* ------------------------------------------------- the helpers, called alone
\* arg is the input of one call, result what the call returned.
InitHelpers ==
    /\ MAX_IP_STORAGE_BYTES = 0
    /\ InitState
    /\ arg \in IndexFiles \cup PreviewInputs \cup SizeInputs \cup HandlerOutcomes \cup Targets
    /\ result = NoValue

LoadIndex ==
    /\ arg.kind = "index_file"
    /\ result = NoValue
    /\ result' = [kind |-> "load_index", value |-> load_index_of(arg)]
    /\ UNCHANGED <<MAX_IP_STORAGE_BYTES, arg, auth, bot, index_json, upload_dir, issued, pc,
                   locals, response, history, last_request>>

BuildPreview ==
    /\ arg.kind = "preview_input"
    /\ result = NoValue
    /\ result' = [kind |-> "build_preview_payload",
                  value |-> build_preview_payload(arg.path, arg.filename, arg.mime_type)]
    /\ UNCHANGED <<MAX_IP_STORAGE_BYTES, arg, auth, bot, index_json, upload_dir, issued, pc,
                   locals, response, history, last_request>>

HumanReadableSize ==
    /\ arg.kind = "size"
    /\ result = NoValue
    /\ result' = [kind |-> "human_readable_size",
                  value |-> human_readable_size_scaled(arg.m, arg.e)]
    /\ UNCHANGED <<MAX_IP_STORAGE_BYTES, arg, auth, bot, index_json, upload_dir, issued, pc,
                   locals, response, history, last_request>>

ErrorMiddleware ==
    /\ arg.kind = "handler_outcome"
    /\ result = NoValue
    /\ result' = [kind |-> "error_middleware", value |-> error_middleware(arg)]
    /\ UNCHANGED <<MAX_IP_STORAGE_BYTES, arg, auth, bot, index_json, upload_dir, issued, pc,
                   locals, response, history, last_request>>

NextHelpers ==
    LoadIndex \/ BuildPreview \/ HumanReadableSize \/ ErrorMiddleware \/ SanitizeNext

SpecHelpers == InitHelpers /\ [][NextHelpers]_vars


\* ------------------------------------------------ bot.py: handle_upload
\* The upload handler of bot.create_app: no quota, no cleanup, and the index
\* is loaded after the stream has ended.

\* reader.next() returned: bot.py lines 478-488, up to the first read_chunk().
BotUploadField(u, field, fname, request) ==
    /\ pc[u] = "multipart"
    /\ IF MissingField(field)
       THEN /\ Return(u, [status |-> 400, body |-> "missing file field"])
            /\ UNCHANGED <<upload_dir, issued, token, filename, client_ip>>
       ELSE LET tok == uuid4_hex(issued)
            IN  /\ issued' = issued + 1
                /\ token' = [token EXCEPT ![u] = tok]
                /\ filename' = [filename EXCEPT ![u] = fname]
                /\ client_ip' = [client_ip EXCEPT ![u] = client_ip_from_request(request)]
                /\ pc' = [pc EXCEPT ![u] = "bot_read_chunk"]
                /\ upload_dir' = OpenWb(upload_dir, SavedName(tok, fname))
                /\ UNCHANGED <<index, current_usage, size, quota_hit,
                               upload_completed, response>>
    /\ last_request' = [op |-> "upload", field |-> field]
    /\ UNCHANGED <<fixed, index_json, history>>

\* read_chunk() returned n bytes: bot.py lines 489-494.
BotReadChunk(u, n) ==
    /\ pc[u] = "bot_read_chunk"
    /\ size[u] + n <= MaxFileBytes
    /\ upload_dir' = WriteChunk(upload_dir, dest(u), n)
    /\ size' = [size EXCEPT ![u] = AddSize(size[u], n)]
    /\ last_request' = NoRequest
    /\ UNCHANGED <<fixed, index_json, issued, pc, response, token, filename, client_ip,
                   index, current_usage, quota_hit, upload_completed, history>>

\* read_chunk() returned b"": the file is closed, the index is loaded, the
\* record added and the index saved, with no await in between: lines 491-509.
BotReadEOF(u, ts) ==
    /\ pc[u] = "bot_read_chunk"
    /\ LET rec == NewRecord(filename[u], dest(u), size[u], ts, client_ip[u])
       IN  index_json' = PutRecord(load_index, token[u], rec)
    /\ Return(u, [status |-> 200, body |-> token[u]])
    /\ last_request' = NoRequest
    /\ UNCHANGED <<fixed, upload_dir, issued, token, filename, client_ip, history>>

\* read_chunk() or f.write() raised: the exception leaves the handler, the
\* file stays, error_middleware answers 500.
BotReadError(u) ==
    /\ pc[u] = "bot_read_chunk"
    /\ Return(u, [status |-> 500, body |-> "error"])
    /\ last_request' = NoRequest
    /\ UNCHANGED <<fixed, index_json, upload_dir, issued, token, filename,
                   client_ip, history>>

\* The request is cancelled while read_chunk() is awaited.
BotCancelChunk(u) ==
    /\ pc[u] = "bot_read_chunk"
    /\ Return(u, [status |-> -1, body |-> "CancelledError in read_chunk"])
    /\ last_request' = NoRequest
    /\ UNCHANGED <<fixed, index_json, upload_dir, issued, token, filename,
                   client_ip, history>>


\* bot.create_app alone: its upload handler and the delete handler
NextBot ==
    \/ \E u \in Procs : UploadRequest(u)
    \/ \E u \in Procs : CancelMultipart(u)
    \/ \E u \in Procs, field \in FieldNames, fname \in Filenames, request \in Requests :
           BotUploadField(u, field, fname, request)
    \/ \E u \in Procs, n \in 1..CHUNK_SIZE : BotReadChunk(u, n)
    \/ \E u \in Procs, ts \in Timestamps : BotReadEOF(u, ts)
    \/ \E u \in Procs : BotReadError(u)
    \/ \E u \in Procs : BotCancelChunk(u)
    \/ \E tok \in AllTokens, request \in Requests : Delete(tok, request)
    \/ \E tok \in AllTokens, request \in Requests : DeleteRefused(tok, request)

SpecBot == InitApi /\ [][NextBot]_vars

\* Either upload handler serving a request, over one store
NextBoth == Next \/ NextBot

SpecBoth == Init /\ [][NextBoth]_vars

\* ------------------------------------------------- the listing application
MaxRecords == 3       \* records of the index the listing reads
MaxNow == 2           \* values of time.time()
MaxTTL == 1           \* values of SESSION_TTL

Users == {"admin", "guest"}
CredentialSets == UNION {[S -> {"pw"}] : S \in SUBSET Users}
Clock == 0 .. MaxNow

\* _sign(payload): the HMAC of username|issued under the session secret
_sign(username, issued_at) ==
    [username |-> username, issued |-> issued_at, key |-> "SESSION_SECRET_BYTES"]

\* request.cookies.get(SESSION_COOKIE): absent, or a token of parts fields
\* separated by "|", the first three being username, issued, signature
NoCookie ==
    [present |-> FALSE, parts |-> 0, username |-> "", issued |-> 0,
     signature |-> _sign("", 0)]

create_session_token(username, now) ==
    [present |-> TRUE, parts |-> 3, username |-> username, issued |-> now,
     signature |-> _sign(username, now)]

\* the cookies tried: none, those a login hands out, one whose issue time was
\* altered, one signed under another key, one with a field missing
Cookies ==
    {NoCookie}
    \cup {create_session_token(u, i) : u \in Users, i \in Clock}
    \cup {[create_session_token(u, 0) EXCEPT !.issued = MaxNow] : u \in Users}
    \cup {[create_session_token(u, 0) EXCEPT !.signature.key = "guess"] : u \in Users}
    \cup {[create_session_token("admin", 0) EXCEPT !.parts = 2]}


validate_session_token(cookie, now) ==
    /\ cookie.parts = 3
    /\ cookie.username \in DOMAIN ALLOWED_USERS
    /\ _sign(cookie.username, cookie.issued) = cookie.signature
    /\ ~(SESSION_TTL # 0 /\ now - cookie.issued > SESSION_TTL)

is_authenticated(cookie, now) ==
    IF ~AUTH_ENABLED THEN TRUE
    ELSE IF ~cookie.present THEN FALSE
    ELSE validate_session_token(cookie, now)

\* the index documents the listing is run on: records with and without a
\* timestamp member, in the order of the document
ListingTokens == [n \in 1 .. MaxRecords |-> uuid4_hex(n)]
NoTimestamp(record) == [f \in (DOMAIN record) \ {"timestamp"} |-> record[f]]
ListingRecords(tok) ==
    LET full == {NewRecord("a.txt", SavedName(tok, "a.txt"), 1, ts, "10.0.0.1") : ts \in 1 .. 2}
    IN  full \cup {NoTimestamp(r) : r \in full}
ListingIndexes ==
    UNION {{idx \in [{ListingTokens[n] : n \in S} -> UNION {ListingRecords(ListingTokens[n]) : n \in S}] :
               \A t \in DOMAIN idx : idx[t] \in ListingRecords(t)} :
           S \in SUBSET (1 .. MaxRecords)}

\* timestamp = meta.get("timestamp") or 0
TimestampOr0(meta) == IF "timestamp" \in DOMAIN meta THEN meta.timestamp ELSE 0

\* index.items(): the tokens in the order of the document
RECURSIVE Items(_, _)
Items(idx, n) ==
    IF n > Len(ListingTokens) THEN <<>>
    ELSE (IF ListingTokens[n] \in DOMAIN idx THEN <<ListingTokens[n]>> ELSE <<>>)
         \o Items(idx, n + 1)

\* records.sort(key=timestamp, reverse=True) is stable: a record goes after
\* the records sorted so far whose timestamp is not smaller
SortedInsert(idx, sorted, tok) ==
    LET before == {i \in DOMAIN sorted : TimestampOr0(idx[sorted[i]]) >= TimestampOr0(idx[tok])}
        k == Cardinality(before)
    IN  SubSeq(sorted, 1, k) \o <<tok>> \o SubSeq(sorted, k + 1, Len(sorted))

RECURSIVE SortRecords(_, _, _)
SortRecords(idx, toks, sorted) ==
    IF toks = <<>> THEN sorted
    ELSE SortRecords(idx, Tail(toks), SortedInsert(idx, sorted, Head(toks)))

\* the members of one answered record that the model keeps
ListingRecord(idx, tok) ==
    [token |-> tok, filename |-> idx[tok].filename, size |-> idx[tok].size,
     size_readable |-> human_readable_size(idx[tok].size)]

handle_listing(cookie, now) ==
    IF AUTH_ENABLED /\ ~is_authenticated(cookie, now)
    THEN [status |-> 401, records |-> <<>>]
    ELSE LET idx == load_index
             toks == SortRecords(idx, Items(idx, 1), <<>>)
         IN  [status |-> 200, records |-> [i \in DOMAIN toks |-> ListingRecord(idx, toks[i])]]

InitListing ==
    /\ MAX_IP_STORAGE_BYTES = 0
    /\ index_json \in ListingIndexes
    /\ upload_dir = EmptyIndex
    /\ InitHandlers
    /\ arg = NoValue
    /\ result = NoValue
    /\ credentials \in CredentialSets
    /\ ALLOWED_USERS = credentials
    /\ AUTH_ENABLED = (DOMAIN credentials # {})
    /\ SESSION_TTL \in 0 .. MaxTTL

ListingFrame ==
    UNCHANGED <<MAX_IP_STORAGE_BYTES, arg, result, bot, index_json, upload_dir, issued, pc,
                locals, response, history>>

\* the credentials file is rewritten while the server runs
EditCredentials(c) ==
    /\ credentials' = c
    /\ last_request' = NoRequest
    /\ UNCHANGED <<ALLOWED_USERS, AUTH_ENABLED, SESSION_TTL>>
    /\ ListingFrame

\* handle_root and handle_login_page: refresh_allowed_users()
RefreshAllowedUsers ==
    /\ ALLOWED_USERS' = credentials
    /\ AUTH_ENABLED' = (DOMAIN credentials # {})
    /\ last_request' = NoRequest
    /\ UNCHANGED <<credentials, SESSION_TTL>>
    /\ ListingFrame

\* GET /api/files on the listing application
HandleListing(cookie, now) ==
    /\ last_request' = [op |-> "listing", cookie |-> cookie, now |-> now,
                        answer |-> handle_listing(cookie, now)]
    /\ UNCHANGED auth
    /\ ListingFrame

NextListing ==
    \/ \E c \in CredentialSets : EditCredentials(c)
    \/ RefreshAllowedUsers
    \/ \E cookie \in Cookies, now \in Clock : HandleListing(cookie, now)

SpecListing == InitListing /\ [][NextListing]_vars


\* ------------------------------------------------- restart on a used disk
\* UPLOAD_DIR outlives the process (config.py creates it with exist_ok): a
\* start-up may find a file there.  uuid4() is drawn without a look at the
\* directory, so the name of a file found there can be the one an upload
\* derives at lines 311-313.
LeftoverDirs ==
    {EmptyIndex} \cup
    { [n \in {SavedName(t, f)} |-> sz] :
          t \in AllTokens, f \in Filenames, sz \in 1..MaxFileBytes }

InitRestart ==
    /\ MAX_IP_STORAGE_BYTES = 0
    /\ index_json = EmptyIndex
    /\ upload_dir \in LeftoverDirs
    /\ InitHandlers
    /\ InitAuth
    /\ arg = NoValue
    /\ result = NoValue

SpecRestart == InitRestart /\ [][Next]_vars

\* --------------------------------------------- deletes on a stored index
\* index.json and UPLOAD_DIR as earlier uploads left them: each record with
\* the IP of its uploader, its file on disk or (after a save of a stale
\* snapshot has brought a deleted record back) gone.
MaxStored == 3        \* records of the stored index

StoredTokens == { uuid4_hex(n) : n \in 0 .. (MaxStored - 1) }

StoredIndexes ==
    UNION { { idx \in [S -> { NewRecord(f, SavedName(t, f), 1, 1, ip) :
                                  t \in S, f \in Filenames, ip \in IPs }] :
                  \A t \in S : \E f \in Filenames : idx[t].saved_name = SavedName(t, f) } :
            S \in SUBSET StoredTokens }

StoredDirs(idx) ==
    { [n \in { idx[t].saved_name : t \in S } |-> 1] : S \in SUBSET DOMAIN idx }

\* mutant of handle_delete: a record whose file is gone is not found
handle_delete_NeedsFile(idx, dir, tok, ip) ==
    IF tok \notin DOMAIN idx \/ idx[tok].saved_name \notin DOMAIN dir
    THEN [status |-> 404, index |-> idx, dir |-> dir]
    ELSE IF idx[tok].ip # ip
    THEN [status |-> 403, index |-> idx, dir |-> dir]
    ELSE [status |-> 200, index |-> DelRecord(idx, tok),
          dir |-> Unlink(dir, idx[tok].saved_name)]

\* handle_delete: lines 486-500, with idx = load_index() and the directory
\* as it finds them; index is what it saves (or leaves), dir what is on disk
\* when it returns
handle_delete(idx, dir, tok, ip) ==
    IF tok \notin DOMAIN idx
    THEN [status |-> 404, index |-> idx, dir |-> dir]
    ELSE IF idx[tok].ip # ip
    THEN [status |-> 403, index |-> idx, dir |-> dir]
    ELSE [status |-> 200, index |-> DelRecord(idx, tok),
          dir |-> IF FileExists(dir, idx[tok].saved_name)
                  THEN Unlink(dir, idx[tok].saved_name)
                  ELSE dir]

InitDeletes ==
    /\ MAX_IP_STORAGE_BYTES = 0
    /\ index_json \in StoredIndexes
    /\ upload_dir \in StoredDirs(index_json)
    /\ InitHandlers
    /\ InitAuth
    /\ arg = NoValue
    /\ result = NoValue

\* DELETE /api/delete/{token}: one step, the handler has no await
HandleDelete(tok, request) ==
    LET ip == client_ip_from_request(request)
        out == handle_delete(load_index, upload_dir, tok, ip)
    IN  /\ index_json' = out.index
        /\ upload_dir' = out.dir
        /\ deleted' = IF out.status = 200 THEN deleted \cup {tok} ELSE deleted
        /\ last_request' = DeleteRequest(tok, ip, out.status)
        /\ UNCHANGED <<fixed, issued, pc, locals, response, overlap>>

NextDeletes == \E tok \in StoredTokens, request \in Requests : HandleDelete(tok, request)

SpecDeletes == InitDeletes /\ [][NextDeletes]_vars

\* ------------------------------------------------- the read-only handlers
\* GET /files/{token}, GET /api/file/{token}, GET /api/files of both apps
\* and on_message's lookup of a shared link, as steps among deletes.

\* mutant of IndexAfterRead: a lookup that finds the file gone drops the record
IndexAfterRead_Prunes(idx, dir, tok) ==
    IF tok \in DOMAIN idx /\ ~FileExists(dir, idx[tok].saved_name)
    THEN DelRecord(idx, tok)
    ELSE idx

\* INDEX_PATH after a handler that called load_index() and looked up tok:
\* none of them calls save_index
IndexAfterRead(idx, dir, tok) == idx

\* a Discord message as on_message reads it: whether a bot wrote it, and
\* the token of the /files/<token> link in its text ("" when it has none)
Messages == [author_bot : BOOLEAN, link : StoredTokens \cup {"", "ff"}]

\* on_message, lines 89-115: what is sent to the channel for a shared link
on_message(idx, message) ==
    IF message.author_bot \/ message.link = ""
    THEN [sent |-> "nothing"]
    ELSE IF message.link \in DOMAIN idx
    THEN [sent |-> "embed", filename |-> idx[message.link].filename,
          size_readable |-> human_readable_size(idx[message.link].size)]
    ELSE [sent |-> "not found", token |-> message.link]

ReadFrame ==
    /\ upload_dir' = upload_dir
    /\ UNCHANGED <<fixed, issued, pc, locals, response, history>>

HandleGetFile(tok, raw, preview, site) ==
    /\ last_request' = [op |-> "get_file", token |-> tok,
                        answer |-> handle_get_file(tok, raw, preview, site)]
    /\ index_json' = IndexAfterRead(load_index, upload_dir, tok)
    /\ ReadFrame

HandleFileInfo(tok) ==
    /\ last_request' = [op |-> "file_info", token |-> tok, answer |-> handle_file_info(tok)]
    /\ index_json' = IndexAfterRead(load_index, upload_dir, tok)
    /\ ReadFrame

HandleList(request) ==
    /\ last_request' = [op |-> "list", token |-> "", answer |-> handle_list(request)]
    /\ index_json' = IndexAfterRead(load_index, upload_dir, "")
    /\ ReadFrame

HandleListingFiles(cookie, now) ==
    /\ last_request' = [op |-> "listing", token |-> "", answer |-> handle_listing(cookie, now)]
    /\ index_json' = IndexAfterRead(load_index, upload_dir, "")
    /\ ReadFrame

OnMessage(message) ==
    /\ last_request' = [op |-> "on_message", token |-> message.link,
                        answer |-> on_message(load_index, message)]
    /\ index_json' = IndexAfterRead(load_index, upload_dir, message.link)
    /\ ReadFrame

NextReads ==
    \/ \E tok \in StoredTokens, request \in Requests : HandleDelete(tok, request)
    \/ \E tok \in StoredTokens, raw \in {"absent", "1"}, preview \in PreviewModes, site \in Sites :
           HandleGetFile(tok, raw, preview, site)
    \/ \E tok \in StoredTokens : HandleFileInfo(tok)
    \/ \E request \in Requests : HandleList(request)
    \/ HandleListingFiles(NoCookie, 0)
    \/ \E message \in Messages : OnMessage(message)

SpecReads == InitDeletes /\ [][NextReads]_vars

\* --------------------------------- sequential histories over both handlers
\* Requests served one after the other, each by web_server.handle_upload or
\* by bot.handle_upload, with the quota off, no cancellation and no I/O
\* error; a handler activation serves one request; deletes arrive while no
\* upload is being served (the two delete handlers are the same code).
Quiet == \A u \in Procs : pc[u] \in {"idle", "done"}

\* the requests that reach web_server.create_uploader_app, and those that
\* reach bot.create_app
WebHandlers == {u \in Procs : u % 2 = 1}
BotHandlers == Procs \ WebHandlers

NextSeqBoth ==
    \/ \E u \in Procs : Quiet /\ pc[u] = "idle" /\ UploadRequest(u)
    \/ \E u \in WebHandlers, field \in FieldNames, fname \in Filenames, request \in Requests :
           UploadField(u, field, fname, request)
    \/ \E u \in WebHandlers, n \in 1..CHUNK_SIZE : ReadChunk(u, n)
    \/ \E u \in WebHandlers : ReadEOF(u)
    \/ \E u \in WebHandlers, ts \in Timestamps : ReleaseDone(u, ts)
    \/ \E u \in BotHandlers, field \in FieldNames, fname \in Filenames, request \in Requests :
           BotUploadField(u, field, fname, request)
    \/ \E u \in BotHandlers, n \in 1..CHUNK_SIZE : BotReadChunk(u, n)
    \/ \E u \in BotHandlers, ts \in Timestamps : BotReadEOF(u, ts)
    \/ \E tok \in AllTokens, request \in Requests : Quiet /\ Delete(tok, request)
    \/ \E tok \in AllTokens, request \in Requests : Quiet /\ DeleteRefused(tok, request)

SpecSeqBoth == InitApi /\ [][NextSeqBoth]_vars

\* ------------------------------------------- session tokens as cookie text
\* The token as the string the cookie carries: a sequence of characters,
\* the hex digest being kept as one element (it holds no "|").

\* the usernames of the credentials file, as their characters
SessionUsers == { <<"a">>, <<"b", "|", "c">> }
SessionCredentialSets == UNION {[S -> {"pw"}] : S \in SUBSET SessionUsers}

\* hmac.new(SESSION_SECRET_BYTES, payload, "sha256").hexdigest()
hexdigest(payload) == "hmac(" \o Str(payload) \o ")"

RECURSIVE str_int(_)
\* str(int(time.time())): the decimal digits of n >= 0
str_int(n) == IF n < 10 THEN <<Digits[n + 1]>>
              ELSE str_int(n \div 10) \o <<Digits[(n % 10) + 1]>>

\* create_session_token: f"{username}|{issued}|{signature}"
session_token(username, now) ==
    LET payload == username \o <<"|">> \o str_int(now)
    IN  payload \o <<"|">> \o <<hexdigest(payload)>>

RECURSIVE split(_, _)
\* token.split("|")
split(cs, sep) ==
    IF \A i \in DOMAIN cs : cs[i] # sep
    THEN <<cs>>
    ELSE LET i == CHOOSE i \in DOMAIN cs : cs[i] = sep /\ \A j \in 1 .. (i - 1) : cs[j] # sep
         IN  <<SubSeq(cs, 1, i - 1)>> \o split(SubSeq(cs, i + 1, Len(cs)), sep)

\* int(issued_str) raises ValueError
IntValueError(cs) == cs = <<>> \/ \E i \in DOMAIN cs : \A d \in DOMAIN Digits : Digits[d] # cs[i]

RECURSIVE int(_)
\* int(issued_str) of a string of digits
int(cs) ==
    IF cs = <<>> THEN 0
    ELSE 10 * int(SubSeq(cs, 1, Len(cs) - 1))
         + (CHOOSE d \in 0 .. 9 : Digits[d + 1] = cs[Len(cs)])

\* validate_session_token on the cookie text: lines 67-83
validate_token_text(text, now) ==
    LET parts == split(text, "|")
    IN  /\ Len(parts) = 3
        /\ parts[1] \in DOMAIN ALLOWED_USERS
        /\ <<hexdigest(parts[1] \o <<"|">> \o parts[2])>> = parts[3]
        /\ ~IntValueError(parts[2])
        /\ ~(SESSION_TTL # 0 /\ now - int(parts[2]) > SESSION_TTL)

\* the cookie texts tried: those create_session_token hands out, and texts
\* with a field missing, a field too many, a name that is in no table, a
\* signature of another text, an issue time that is no integer
ForgedTexts ==
    { <<"a", "|", "0">>,
      <<"a", "|", "0", "|", "0", "|", hexdigest(<<"a", "|", "0">>)>>,
      <<"z", "|", "0", "|", hexdigest(<<"z", "|", "0">>)>>,
      <<"a", "|", "1", "|", hexdigest(<<"a", "|", "0">>)>>,
      <<"a", "|", "x", "|", hexdigest(<<"a", "|", "x">>)>>,
      <<"a", "|", "|", hexdigest(<<"a", "|">>)>> }

InitSession ==
    /\ MAX_IP_STORAGE_BYTES = 0
    /\ index_json = EmptyIndex
    /\ upload_dir = EmptyIndex
    /\ InitHandlers
    /\ arg = NoValue
    /\ result = NoValue
    /\ credentials \in SessionCredentialSets
    /\ ALLOWED_USERS = credentials
    /\ AUTH_ENABLED = (DOMAIN credentials # {})
    /\ SESSION_TTL \in 0 .. MaxTTL

\* handle_login_submit with a username and its password from the table:
\* the cookie is set to create_session_token(username)
LoginSubmit(username, now) ==
    /\ AUTH_ENABLED
    /\ username \in DOMAIN credentials
    /\ ALLOWED_USERS' = credentials
    /\ AUTH_ENABLED' = (DOMAIN credentials # {})
    /\ last_request' = [op |-> "login", username |-> username, now |-> now,
                        cookie |-> session_token(username, now)]
    /\ UNCHANGED <<credentials, SESSION_TTL>>
    /\ ListingFrame

\* a later request carries the cookie text: validate_session_token(token)
ValidateSession(text, now) ==
    /\ last_request' = [op |-> "validate", cookie |-> text, now |-> now,
                        valid |-> validate_token_text(text, now)]
    /\ UNCHANGED auth
    /\ ListingFrame

NextSession ==
    \/ \E c \in SessionCredentialSets : EditCredentials(c)
    \/ RefreshAllowedUsers
    \/ \E username \in SessionUsers, now \in Clock : LoginSubmit(username, now)
    \/ \E username \in SessionUsers, issued_at \in Clock, now \in Clock :
           issued_at <= now /\ ValidateSession(session_token(username, issued_at), now)
    \/ \E text \in ForgedTexts, now \in Clock : ValidateSession(text, now)

SpecSession == InitSession /\ [][NextSession]_vars

\* ------------------------------------------------ discord_setup.on_ready
\* discord.py runs on_ready as a task of its own for every READY event of
\* the gateway; an execution is suspended at each await, and another one
\* can run meanwhile.
MaxReady == 3         \* READY events

ReadyEvents == 1 .. MaxReady

InitReady ==
    /\ MAX_IP_STORAGE_BYTES = 0
    /\ index_json = EmptyIndex
    /\ upload_dir = EmptyIndex
    /\ issued = 0
    /\ pc = [r \in ReadyEvents |-> "idle"]
    /\ token = [u \in Procs |-> ""]
    /\ filename = [u \in Procs |-> ""]
    /\ client_ip = [u \in Procs |-> ""]
    /\ index = [u \in Procs |-> EmptyIndex]
    /\ current_usage = [u \in Procs |-> 0]
    /\ size = [u \in Procs |-> 0]
    /\ quota_hit = [u \in Procs |-> FALSE]
    /\ upload_completed = [u \in Procs |-> FALSE]
    /\ response = [u \in Procs |-> NoResponse]
    /\ bot = NewBot
    /\ deleted = {}
    /\ overlap = {}
    /\ last_request = NoRequest
    /\ InitAuth
    /\ arg = NoValue
    /\ result = NoValue

ReadyFrame ==
    /\ last_request' = NoRequest
    /\ UNCHANGED <<MAX_IP_STORAGE_BYTES, arg, result, auth, index_json, upload_dir,
                   issued, locals, response, history>>

\* runner = web.AppRunner(app); await runner.setup()
RunnerSetup(b, server) == [b EXCEPT !.setups[server] = @ + 1]

\* site = web.TCPSite(runner, HTTP_HOST, port); await site.start(): the
\* port is bound and listened on; OSError when it is bound already
SiteStartFails(b, server) == server \in b.bound
SiteStart(b, server) ==
    [b EXCEPT !.starts[server] = @ + 1, !.bound = @ \cup {server}]

\* if not hasattr(bot, "listing_runner"): lines 44-47, up to the await
ListingCheck(r, b) ==
    IF b.listing_runner
    THEN /\ bot' = b
         /\ pc' = [pc EXCEPT ![r] = "tree_sync"]
    ELSE /\ bot' = RunnerSetup(b, "listing")
         /\ pc' = [pc EXCEPT ![r] = "listing_setup"]

\* on_ready is entered: lines 29-38, up to the first await
OnReady(r) ==
    /\ pc[r] = "idle"
    /\ LET b == [bot EXCEPT !.session = TRUE]
       IN  IF b.web_runner
           THEN ListingCheck(r, b)
           ELSE /\ bot' = RunnerSetup(b, "upload")
                /\ pc' = [pc EXCEPT ![r] = "web_setup"]
    /\ ReadyFrame

\* runner.setup() returned: lines 39-40, site.start() is awaited
WebSetupDone(r) ==
    /\ pc[r] = "web_setup"
    /\ IF SiteStartFails(bot, "upload")
       THEN /\ pc' = [pc EXCEPT ![r] = "raised"]
            /\ bot' = bot
       ELSE /\ pc' = [pc EXCEPT ![r] = "web_start"]
            /\ bot' = SiteStart(bot, "upload")
    /\ ReadyFrame

\* site.start() returned: lines 41-47
WebStartDone(r) ==
    /\ pc[r] = "web_start"
    /\ ListingCheck(r, [bot EXCEPT !.web_runner = TRUE])
    /\ ReadyFrame

\* listing_runner.setup() returned: lines 48-49
ListingSetupDone(r) ==
    /\ pc[r] = "listing_setup"
    /\ IF SiteStartFails(bot, "listing")
       THEN /\ pc' = [pc EXCEPT ![r] = "raised"]
            /\ bot' = bot
       ELSE /\ pc' = [pc EXCEPT ![r] = "listing_start"]
            /\ bot' = SiteStart(bot, "listing")
    /\ ReadyFrame

\* listing_site.start() returned: lines 50-54, bot.tree.sync() is awaited
ListingStartDone(r) ==
    /\ pc[r] = "listing_start"
    /\ bot' = [bot EXCEPT !.listing_runner = TRUE]
    /\ pc' = [pc EXCEPT ![r] = "tree_sync"]
    /\ ReadyFrame

\* bot.tree.sync() returned or raised: lines 55-57
TreeSyncDone(r) ==
    /\ pc[r] = "tree_sync"
    /\ pc' = [pc EXCEPT ![r] = "done"]
    /\ bot' = bot
    /\ ReadyFrame

NextReady ==
    \/ \E r \in ReadyEvents : OnReady(r)
    \/ \E r \in ReadyEvents : WebSetupDone(r)
    \/ \E r \in ReadyEvents : WebStartDone(r)
    \/ \E r \in ReadyEvents : ListingSetupDone(r)
    \/ \E r \in ReadyEvents : ListingStartDone(r)
    \/ \E r \in ReadyEvents : TreeSyncDone(r)

SpecReady == InitReady /\ [][NextReady]_vars

\* ------------------------------------------------------------- claims
Succeeded(u) == pc[u] = "done" /\ response[u].status = 200
CancelledIn(u, where) ==
    pc[u] = "done" /\ response[u] = [status |-> -1, body |-> "CancelledError in " \o where]
QuotaRejected(u, where) ==
    pc[u] = "done" /\ response[u].body = "quota exceeded (" \o where \o ")"
\* the step of handler u in which save_index runs and the success is returned
Commits(u) == pc[u] = "release" /\ pc'[u] = "done" /\ response'[u].status = 200

\* C1: two uploads whose chunk streaming overlapped and that both returned
\* success are both in the index afterwards (as long as neither is deleted).
C1_OverlappingUploadsBothIndexed ==
    \A u, v \in Procs :
        ( /\ u # v
          /\ Succeeded(u) /\ Succeeded(v)
          /\ {token[u], token[v]} \in overlap
          /\ token[u] \notin deleted /\ token[v] \notin deleted )
        => (token[u] \in DOMAIN index_json /\ token[v] \in DOMAIN index_json)

\* C2: when an upload returns success, the record committed under its token
\* has saved_name = token + "-" + filename, the file of that name exists at
\* that moment, and the record's size is the byte length of that file.
C2_CommittedSizeIsFileLength ==
    [][ \A u \in Procs :
          Commits(u) =>
            /\ token[u] \in DOMAIN index_json'
            /\ LET rec == index_json'[token[u]]
               IN  /\ rec.saved_name = token[u] \o "-" \o filename[u]
                   /\ rec.saved_name \in DOMAIN upload_dir'
                   /\ rec.size = upload_dir'[rec.saved_name] ]_vars

C2_Witness ==
    \E u \in Procs :
        /\ Succeeded(u)
        /\ token[u] \in DOMAIN index_json
        /\ index_json[token[u]].size = MaxFileBytes
        /\ upload_dir[index_json[token[u]].saved_name] = MaxFileBytes

\* C3: every record of the index names a file that exists on disk and whose
\* byte length is the record's size.
C3_IndexedFilesExist ==
    \A t \in DOMAIN index_json :
        /\ index_json[t].saved_name \in DOMAIN upload_dir
        /\ upload_dir[index_json[t].saved_name] = index_json[t].size

\* C4: a record leaves the index only by a successful delete of its own
\* token, and no field of it changes while it is in the index.
C4_RecordsLeaveOnlyByDelete ==
    [][ \A t \in DOMAIN index_json :
          IF t \in DOMAIN index_json'
          THEN index_json'[t] = index_json[t]
          ELSE /\ pc' = pc
               /\ t \in deleted'
               /\ index_json' = DelRecord(index_json, t) ]_vars

\* C5: an upload cancelled while it waits for a chunk ends with the
\* CancelledError raised to its caller, its file removed from disk and no
\* index entry under its token.
C5_CancelledInChunkLeavesNothing ==
    \A u \in Procs :
        CancelledIn(u, "read_chunk") =>
            /\ response[u].status = -1
            /\ dest(u) \notin DOMAIN upload_dir
            /\ token[u] \notin DOMAIN index_json

C5_Witness ==
    \E u \in Procs :
        /\ CancelledIn(u, "read_chunk")
        /\ \E v \in Procs \ {u} : Succeeded(v) /\ token[v] \in DOMAIN index_json

\* C6: an upload cancelled while field.release() is awaited, after the last
\* chunk and before save_index, ends with its file removed from disk and no
\* index entry.
C6_CancelledInReleaseLeavesNothing ==
    \A u \in Procs :
        CancelledIn(u, "release") =>
            /\ dest(u) \notin DOMAIN upload_dir
            /\ token[u] \notin DOMAIN index_json

\* C7: uploads one after another, positive limit: the sizes committed for one
\* IP never sum to more than limit + chunk size, and an upload attempted when
\* the IP's indexed usage is already >= limit commits nothing.
C7_SequentialQuota ==
    /\ [](MAX_IP_STORAGE_BYTES > 0 =>
            \A ip \in IPs : IpUsage(index_json, ip) <= MAX_IP_STORAGE_BYTES + CHUNK_SIZE)
    /\ [][ \A u \in Procs :
             ( /\ MAX_IP_STORAGE_BYTES > 0
               /\ pc[u] = "multipart" /\ token'[u] # ""
               /\ IpUsage(index_json, client_ip'[u]) >= MAX_IP_STORAGE_BYTES )
             => /\ pc'[u] = "done"
                /\ index_json' = index_json
                /\ token'[u] \notin DOMAIN index_json' ]_vars

C7_Witness ==
    /\ MAX_IP_STORAGE_BYTES > 0
    /\ \E u, v \in Procs :
         /\ u # v
         /\ Succeeded(u) /\ token[u] \in DOMAIN index_json
         /\ QuotaRejected(v, "pre-flight")
         /\ client_ip[v] = client_ip[u]
         /\ IpUsage(index_json, client_ip[u]) = MAX_IP_STORAGE_BYTES

\* C8: positive limit, uploads of one IP interleaved in any way: the sizes of
\* that IP's records in the index never sum to more than limit + chunk size.
C8_ConcurrentQuota ==
    MAX_IP_STORAGE_BYTES > 0 =>
        \A ip \in IPs : IpUsage(index_json, ip) <= MAX_IP_STORAGE_BYTES + CHUNK_SIZE

C8_Witness ==
    /\ MAX_IP_STORAGE_BYTES > 0
    /\ \E u, v \in Procs :
         /\ u # v
         /\ Succeeded(u) /\ Succeeded(v)
         /\ {token[u], token[v]} \in overlap
         /\ client_ip[u] = client_ip[v]
         /\ IpUsage(index_json, client_ip[u]) = MAX_IP_STORAGE_BYTES

\* C9: positive limit, the requester's indexed usage already >= limit: the
\* upload is answered 400 straight from the pre-flight check, before any
\* chunk is read, creating no file and leaving the index as it was.
C9_PreflightRejects ==
    [][ \A u \in Procs :
          ( /\ MAX_IP_STORAGE_BYTES > 0
            /\ pc[u] = "multipart" /\ token'[u] # ""
            /\ IpUsage(index_json, client_ip'[u]) >= MAX_IP_STORAGE_BYTES )
          => /\ pc'[u] = "done"
             /\ response'[u].status = 400
             /\ response'[u].body = "quota exceeded (pre-flight)"
             /\ upload_dir' = upload_dir
             /\ SavedName(token'[u], filename'[u]) \notin DOMAIN upload_dir'
             /\ index_json' = index_json ]_vars

C9_Witness ==
    /\ MAX_IP_STORAGE_BYTES > 0
    /\ \E u \in Procs :
         /\ QuotaRejected(u, "pre-flight")
         /\ IpUsage(index_json, client_ip[u]) >= MAX_IP_STORAGE_BYTES

\* C10: positive limit: an upload never goes on once usage-at-start plus the
\* bytes written exceeds the limit; it ends with a 400 quota error, its
\* partial file removed and no index entry under its token.
C10_MidStreamAbort ==
    \A u \in Procs :
        /\ (MAX_IP_STORAGE_BYTES > 0 /\ pc[u] \in {"read_chunk", "release"})
             => current_usage[u] + size[u] <= MAX_IP_STORAGE_BYTES
        /\ QuotaRejected(u, "mid-stream")
             => /\ MAX_IP_STORAGE_BYTES > 0
                /\ response[u].status = 400
                /\ dest(u) \notin DOMAIN upload_dir
                /\ token[u] \notin DOMAIN index_json

C10_Witness ==
    \E u \in Procs :
        /\ QuotaRejected(u, "mid-stream")
        /\ \A ip \in IPs : IpUsage(index_json, ip) = 0

\* C11: with a quota of 0 or below no upload is rejected or aborted for
\* quota reasons, whatever the IP already stores and however large the upload.
C11_NoQuotaWhenLimitNotPositive ==
    MAX_IP_STORAGE_BYTES <= 0 =>
        \A u \in Procs :
            /\ ~QuotaRejected(u, "pre-flight")
            /\ ~QuotaRejected(u, "mid-stream")
            /\ (pc[u] = "done" /\ token[u] # "") => response[u].status # 400

C11_Witness ==
    /\ MAX_IP_STORAGE_BYTES < 0
    /\ \E u, v \in Procs :
         /\ u # v
         /\ Succeeded(u) /\ Succeeded(v)
         /\ client_ip[u] = client_ip[v]
         /\ IpUsage(index_json, client_ip[u]) = 2 * MaxFileBytes

\* C12: an upload whose first field is absent or not named "file" is answered
\* 400 with an error body; no file is created and the index is not changed.
C12_MissingFieldRejected ==
    [][ \A u \in Procs :
          ( /\ pc[u] = "multipart" /\ pc'[u] # "multipart"
            /\ last_request'.op = "upload"
            /\ last_request'.field # "file" )
          => /\ pc'[u] = "done"
             /\ response'[u] = [status |-> 400, body |-> "missing file field"]
             /\ upload_dir' = upload_dir
             /\ index_json' = index_json
             /\ issued' = issued ]_vars

C12_Witness ==
    /\ last_request = [op |-> "upload", field |-> "avatar"]
    /\ DOMAIN index_json # {}
    /\ \E u \in Procs : pc[u] = "done" /\ response[u].body = "missing file field"

\* the delete request answered by the step, if the step is one
DeleteStep == last_request'.op = "delete"

\* C13: a delete whose apparent IP differs from the record's stored IP is
\* answered 403 and leaves the index entry and the file as they were, so
\* that a file-info request for the token answers as before (and succeeds
\* when the file is there).
C13_ForeignDeleteRefused ==
    [][ ( /\ DeleteStep
          /\ last_request'.token \in DOMAIN index_json
          /\ index_json[last_request'.token].ip # last_request'.ip )
        => LET t == last_request'.token
           IN  /\ last_request'.status = 403
               /\ index_json' = index_json
               /\ upload_dir' = upload_dir
               /\ file_info(index_json', upload_dir', t) = file_info(index_json, upload_dir, t)
               /\ index_json[t].saved_name \in DOMAIN upload_dir
                    => file_info(index_json', upload_dir', t).status = 200 ]_vars

C13_Witness ==
    /\ last_request.op = "delete"
    /\ last_request.status = 403
    /\ handle_file_info(last_request.token).status = 200
    /\ handle_file_info(last_request.token).size > 0

\* C14: a delete succeeds exactly when the token is in the index and the
\* requester's apparent IP is the record's; a successful delete removes the
\* token's file and entry and leaves every other record and file unchanged.
C14_DeleteExactlyWhenOwner ==
    [][ DeleteStep =>
          LET t == last_request'.token
              owner == t \in DOMAIN index_json /\ index_json[t].ip = last_request'.ip
          IN  /\ (last_request'.status = 200) <=> owner
              /\ owner =>
                   /\ t \notin DOMAIN index_json'
                   /\ index_json[t].saved_name \notin DOMAIN upload_dir'
                   /\ DOMAIN index_json' = (DOMAIN index_json) \ {t}
                   /\ \A o \in DOMAIN index_json' : index_json'[o] = index_json[o]
                   /\ DOMAIN upload_dir' = (DOMAIN upload_dir) \ {index_json[t].saved_name}
                   /\ \A n \in DOMAIN upload_dir' : upload_dir'[n] = upload_dir[n] ]_vars

C14_Witness ==
    /\ last_request.op = "delete"
    /\ last_request.status = 200
    /\ last_request.token \notin DOMAIN index_json
    /\ \E o \in DOMAIN index_json : index_json[o].saved_name \in DOMAIN upload_dir

\* C15: a second delete of the token right after a successful one is answered
\* 404 (HTTPNotFound, not an internal error) and changes neither the index
\* nor any file.
C15_SecondDeleteNotFound ==
    [][ ( /\ last_request.op = "delete"
          /\ last_request.status = 200
          /\ DeleteStep
          /\ last_request'.token = last_request.token )
        => /\ last_request'.status = 404
           /\ index_json' = index_json
           /\ upload_dir' = upload_dir ]_vars

C15_Witness ==
    /\ last_request.op = "delete"
    /\ last_request.status = 404
    /\ last_request.token \in deleted
    /\ \E o \in DOMAIN index_json : index_json[o].saved_name \in DOMAIN upload_dir

\* C16: GET /files/{token} and GET /api/file/{token} answer 404 when the
\* token is not in the index and when it is but its file is not on disk.
C16_UnresolvedIsNotFound ==
    \A tok \in AllTokens :
        (tok \notin DOMAIN index_json
           \/ index_json[tok].saved_name \notin DOMAIN upload_dir)
        => /\ handle_file_info(tok).status = 404
           /\ \A raw \in RawModes, preview \in PreviewModes, site \in Sites :
                  handle_get_file(tok, raw, preview, site).status = 404

C16_Witness ==
    /\ \E tok \in DOMAIN index_json : index_json[tok].saved_name \notin DOMAIN upload_dir
    /\ \E tok \in AllTokens : tok \notin DOMAIN index_json

\* C17: after an upload returned success with token t and no delete of t,
\* GET /api/file/t succeeds and reports the uploaded filename and a size
\* equal to the number of bytes uploaded.
C17_UploadThenInfoRoundTrip ==
    \A u \in Procs :
        (Succeeded(u) /\ token[u] \notin deleted)
        => LET r == handle_file_info(token[u])
           IN  /\ r.status = 200
               /\ r.filename = filename[u]
               /\ r.size = upload_dir[dest(u)]

\* C19: both quota rejections have status 400 and carry the configured
\* limit, the IP's indexed usage read when the request started and
\* max(limit - used, 0), each rendered by human_readable_size.
QuotaAnswer(resp, limit, used) ==
    /\ resp.status = 400
    /\ resp.limit = human_readable_size(limit)
    /\ resp.used = human_readable_size(used)
    /\ resp.remaining = human_readable_size(IF limit - used > 0 THEN limit - used ELSE 0)

C19_QuotaRejectionBody ==
    [][ \A u \in Procs :
          /\ ( pc[u] = "multipart" /\ pc'[u] = "done"
               /\ response'[u].body = "quota exceeded (pre-flight)" )
             => QuotaAnswer(response'[u], MAX_IP_STORAGE_BYTES,
                            IpUsage(index_json, client_ip'[u]))
          /\ ( pc[u] = "multipart" /\ pc'[u] = "read_chunk" /\ MAX_IP_STORAGE_BYTES > 0 )
             => current_usage'[u] = IpUsage(index_json, client_ip'[u])
          /\ ( pc[u] = "read_chunk" /\ pc'[u] = "done"
               /\ response'[u].body = "quota exceeded (mid-stream)" )
             => QuotaAnswer(response'[u], MAX_IP_STORAGE_BYTES, current_usage[u]) ]_vars

C19_Witness ==
    \E u \in Procs :
        /\ QuotaRejected(u, "mid-stream")
        /\ response[u].limit = "2 B"
        /\ response[u].used = "1 B"
        /\ response[u].remaining = "1 B"

\* C18: load_index never fails and always returns a token-to-record
\* mapping: the empty one when the file is missing or cannot be read or
\* parsed, and a mapping for every other content, JSON that is not an
\* object included.
C18_LoadIndexReturnsMapping ==
    result.kind = "load_index"
    => /\ result.value.type = "dict"
       /\ (arg.state # "text" \/ arg.text.json = "invalid")
            => result.value.object = EmptyIndex

\* C20: the preview kind is that of the first rule, in the order image,
\* video, audio, pdf, text, whose MIME test or extension test matches; a
\* matching text rule gives text when something was read and none
\* otherwise; a pair matching no rule gives none.
C20_FirstMatchWins ==
    result.kind = "build_preview_payload"
    => LET mime == arg.mime_type
           ext == file_ext(arg.filename)
           image == (mime.present /\ mime.type = "image") \/ ext \in IMAGE_EXTENSIONS
           video == (mime.present /\ mime.type = "video") \/ ext \in VIDEO_EXTENSIONS
           audio == (mime.present /\ mime.type = "audio") \/ ext \in AUDIO_EXTENSIONS
           pdf   == (mime.present /\ mime.type = "application" /\ mime.subtype = "pdf")
                      \/ ext = ".pdf"
           text  == \/ mime.present /\ mime.type = "text"
                    \/ mime.present /\ mime.type = "application" /\ mime.subtype = "json"
                    \/ ext \in TEXT_EXTENSIONS
           read  == arg.path # NoFile /\ arg.path > 0
           kind  == result.value.kind
       IN  /\ image => kind = "image"
           /\ (~image /\ video) => kind = "video"
           /\ (~image /\ ~video /\ audio) => kind = "audio"
           /\ (~image /\ ~video /\ ~audio /\ pdf) => kind = "pdf"
           /\ (~image /\ ~video /\ ~audio /\ ~pdf /\ text)
                => /\ kind = (IF read THEN "text" ELSE "none")
                   /\ read => result.value.truncated = (arg.path > PreviewCap)
           /\ (~image /\ ~video /\ ~audio /\ ~pdf /\ ~text) => kind = "none"

C20_Witness ==
    /\ result.kind = "build_preview_payload"
    /\ file_ext(arg.filename) = ".png"
    /\ arg.mime_type = Mime("video", "mp4")
    /\ result.value = [kind |-> "image"]

\* the call reached the text branch: no earlier rule matched, the text rule did
TextBranch ==
    /\ result.kind = "build_preview_payload"
    /\ LET ext == file_ext(arg.filename)
       IN  /\ \A k \in {"image", "video", "audio", "pdf"} : ~Matches(k, arg.mime_type, ext)
           /\ Matches("text", arg.mime_type, ext)

\* C21: for a file that reaches the text rule, when at least one character
\* can be read the result is kind text with a snippet of at most 4000
\* characters (the first ones of the file) and truncated exactly when the
\* file holds more than 4000; when the file is empty or cannot be opened or
\* read the result is kind none, a value and not an error.
C21_TextSnippet ==
    TextBranch
    => IF arg.path # NoFile /\ arg.path >= 1
       THEN /\ result.value.kind = "text"
            /\ result.value.snippet <= 4000
            /\ result.value.snippet = (IF arg.path <= 4000 THEN arg.path ELSE 4000)
            /\ result.value.truncated <=> (arg.path > 4000)
       ELSE result.value = [kind |-> "none"]

C21_Witness ==
    /\ TextBranch
    /\ arg.path = PreviewCap
    /\ result.value = [kind |-> "text", snippet |-> PreviewCap, truncated |-> FALSE]

\* the requester's apparent address: the first entry of X-Forwarded-For
\* when the header has one, otherwise the peer address
ApparentAddress(request) ==
    IF request.xff \in {<<>>, <<"">>} THEN request.peer
    ELSE IF request.xff[1] \in {"10.0.0.1", " 10.0.0.1"} THEN "10.0.0.1" ELSE "10.0.0.2"

\* C22: GET /api/files on the upload surface returns exactly the index
\* records whose stored ip is the requester's apparent address.
C22_ListOwnRecords ==
    \A request \in ListRequests :
        /\ {item.token : item \in handle_list(request)}
             = {t \in DOMAIN index_json : index_json[t].ip = ApparentAddress(request)}
        /\ \A item \in handle_list(request) :
             /\ item.filename = index_json[item.token].filename
             /\ item.size = index_json[item.token].size
             /\ item.timestamp = index_json[item.token].timestamp

C22_Witness ==
    /\ \E t1, t2 \in DOMAIN index_json :
          index_json[t1].ip = "10.0.0.1" /\ index_json[t2].ip = "10.0.0.2"
    /\ \E request \in ListRequests :
          /\ request.xff # <<>> /\ request.peer = "10.0.0.1"
          /\ {item.token : item \in handle_list(request)}
               = {t \in DOMAIN index_json : index_json[t].ip = "10.0.0.2"}

\* a session cookie that is valid at time now for the users configured
ValidSession(cookie, now) ==
    /\ cookie.present
    /\ cookie.parts = 3
    /\ cookie.username \in DOMAIN credentials
    /\ cookie.signature = _sign(cookie.username, cookie.issued)
    /\ SESSION_TTL = 0 \/ now - cookie.issued <= SESSION_TTL

\* the answer holds every record of the index once, by timestamp descending
AllRecordsNewestFirst(records) ==
    /\ Len(records) = Cardinality(DOMAIN index_json)
    /\ {records[i].token : i \in DOMAIN records} = DOMAIN index_json
    /\ \A i, j \in DOMAIN records :
         i < j => TimestampOr0(index_json[records[i].token])
                    >= TimestampOr0(index_json[records[j].token])

\* C23: the listing's GET /api/files returns every record of the index by
\* timestamp descending (a missing timestamp counting as 0); with at least
\* one credential configured every request without a valid session cookie
\* is answered 401, and with none configured every request is answered.
C23_ListingGated ==
    [][ last_request'.op = "listing" =>
          LET answer == last_request'.answer
          IN  /\ (DOMAIN credentials # {} /\ ~ValidSession(last_request'.cookie, last_request'.now))
                   => answer.status = 401
              /\ DOMAIN credentials = {} => answer.status = 200
              /\ answer.status = 200 => AllRecordsNewestFirst(answer.records) ]_vars

\* how many times 1024 divides into the size m * 1024^e before it drops
\* below 1024 (0 for a size below 1024)
Magnitude(m, e) ==
    IF m = 0 THEN 0
    ELSE e + (IF m < 1024 THEN 0 ELSE IF m < 1024 * 1024 THEN 1 ELSE 2)

\* the size m * 1024^e divided by 1024^u, with two decimals
DividedBy1024(m, e, u) ==
    IF e >= u THEN IntStr(m * Pow1024(e - u)) \o ".00" ELSE Fixed2(m, Pow1024(u - e))

\* C24: human_readable_size renders a size below 1024 as integer bytes with
\* unit B, and otherwise divides by 1024 through KB, MB, GB and stops at TB
\* even when the quotient is still >= 1024; 0 -> "0 B", 1023 -> "1023 B",
\* 1024 -> "1.00 KB", 1048576 -> "1.00 MB".
C24_UnitThresholds ==
    result.kind = "human_readable_size"
    => LET m == arg.m
           e == arg.e
           j == Magnitude(m, e)
           u == IF j > 4 THEN 4 ELSE j
       IN  /\ result.value =
                (IF j = 0 THEN IntStr(m) \o " B"
                 ELSE DividedBy1024(m, e, u) \o " " \o <<"KB", "MB", "GB", "TB">>[u])
           /\ (m = 0 /\ e = 0) => result.value = "0 B"
           /\ (m = 1023 /\ e = 0) => result.value = "1023 B"
           /\ (m = 1024 /\ e = 0) => result.value = "1.00 KB"
           /\ (m = 1 /\ e = 1) => result.value = "1.00 KB"
           /\ (m = 1048576 /\ e = 0) => result.value = "1.00 MB"
           /\ (m = 1 /\ e = 5) => result.value = "1024.00 TB"

C24_Witness ==
    /\ arg = [kind |-> "size", m |-> 1024, e |-> 4]
    /\ result = [kind |-> "human_readable_size", value |-> "1024.00 TB"]

\* the token is in the index and its file is on disk
Resolves(tok) ==
    tok \in DOMAIN index_json /\ index_json[tok].saved_name \in DOMAIN upload_dir

\* C25: for a token that resolves, GET /files/{token} serves the bytes
\* without Content-Disposition for raw=inline, the bytes as an attachment
\* named by the original filename for another raw value such as 1, the
\* preview document for preview=1 without raw, and the download page without
\* parameters (the two pages being there); raw takes precedence over preview.
C25_GetFileDispatch ==
    \A tok \in AllTokens : Resolves(tok) =>
        \A site \in Sites, preview \in PreviewModes :
            LET bytes == index_json[tok].saved_name
            IN  /\ handle_get_file(tok, "inline", preview, site)
                     = [status |-> 200, content |-> bytes, disposition |-> ""]
                /\ handle_get_file(tok, "1", preview, site)
                     = [status |-> 200, content |-> bytes,
                        disposition |-> index_json[tok].filename]
                /\ site.preview_template
                     => handle_get_file(tok, "absent", "1", site)
                          = [status |-> 200, content |-> "preview.html"]
                /\ site.download_page
                     => handle_get_file(tok, "absent", "absent", site)
                          = [status |-> 200, content |-> "download.html"]

C25_Witness ==
    \E u \in Procs :
        /\ Succeeded(u) /\ Resolves(token[u])
        /\ \E site \in Sites :
             /\ handle_get_file(token[u], "1", "1", site).disposition = filename[u]
             /\ handle_get_file(token[u], "absent", "1", site).content = "preview.html"

\* C26: after a delete of token t returned success, t is never in the index
\* again, whatever uploads were in flight when the delete ran.
C26_DeletedStaysDeleted ==
    \A t \in deleted : t \notin DOMAIN index_json

\* the upload of handler u is streaming chunks, or has ended and not yet
\* passed the finally block
Streaming(u) == pc[u] \in {"read_chunk", "release", "bot_read_chunk"}

\* C27: the index entry of an upload is written only after its stream is
\* exhausted and its file closed: the index never holds the token of an
\* upload that is still streaming.
C27_NoEntryWhileStreaming ==
    \A u \in Procs : Streaming(u) => token[u] \notin DOMAIN index_json

C27_Witness ==
    \E u, v \in Procs :
        /\ pc[u] \in {"read_chunk", "bot_read_chunk"}
        /\ size[u] > 0
        /\ upload_dir[dest(u)] = size[u]
        /\ Succeeded(v)
        /\ token[v] \in DOMAIN index_json

\* by how much the bytes written at a mid-stream abort exceed the quota the
\* IP had left when the request started
Overshoot(u, written) == written - (MAX_IP_STORAGE_BYTES - current_usage[u])

\* C28 as stated: at a mid-stream abort the bytes written exceed the IP's
\* remaining quota by less than one chunk size.
C28_OvershootBelowChunk ==
    [][ last_request'.op = "quota_abort"
        => LET u == last_request'.handler
           IN  current_usage[u] < MAX_IP_STORAGE_BYTES
               => /\ Overshoot(u, last_request'.written) > 0
                  /\ Overshoot(u, last_request'.written) < CHUNK_SIZE ]_vars

\* C28 amended: at a mid-stream abort the bytes written exceed the IP's
\* remaining quota by at most one chunk size, for every chunk sequence and
\* every starting usage below the limit.
C28_OvershootAtMostChunk ==
    [][ last_request'.op = "quota_abort"
        => LET u == last_request'.handler
           IN  /\ current_usage[u] < MAX_IP_STORAGE_BYTES
               /\ Overshoot(u, last_request'.written) > 0
               /\ Overshoot(u, last_request'.written) <= CHUNK_SIZE ]_vars

C28_Witness ==
    /\ last_request.op = "quota_abort"
    /\ last_request.written = MAX_IP_STORAGE_BYTES + CHUNK_SIZE
    /\ QuotaRejected(last_request.handler, "mid-stream")

\* C29: when read_chunk() or the write raises in the middle of an upload,
\* the partial file is removed, the index gets no entry, and the client
\* receives a 500 response with an error field.
C29_StreamErrorCleansUp ==
    [][ last_request'.op = "io_error"
        => LET u == last_request'.handler
           IN  /\ dest(u) \in DOMAIN upload_dir
               /\ dest(u) \notin DOMAIN upload_dir'
               /\ \A n \in DOMAIN upload_dir' : upload_dir'[n] = upload_dir[n]
               /\ index_json' = index_json
               /\ token[u] \notin DOMAIN index_json'
               /\ pc'[u] = "done"
               /\ response'[u] = [status |-> 500, body |-> "error"] ]_vars

C29_Witness ==
    /\ last_request.op = "io_error"
    /\ last_request.written > 0
    /\ response[last_request.handler].status = 500
    /\ dest(last_request.handler) \notin DOMAIN upload_dir
    /\ DOMAIN index_json # {}

\* the calls with the same (extension, MIME hint) pair as the call made
SamePair ==
    {b \in PreviewInputs : /\ file_ext(b.filename) = file_ext(arg.filename)
                           /\ b.mime_type = arg.mime_type}

KindOf(b) == build_preview_payload(b.path, b.filename, b.mime_type).kind

\* C30 as stated: two calls with the same (extension, MIME hint) pair return
\* the same preview kind, whatever the content or presence of the file.
C30_KindByPairAlone ==
    result.kind = "build_preview_payload"
    => \A b \in SamePair : KindOf(b) = result.value.kind

\* C30 amended: two calls with the same pair return the same kind unless the
\* pair reaches the text rule; there the kind is text when at least one
\* character of the file can be read and none otherwise.
C30_KindByPairExceptText ==
    result.kind = "build_preview_payload"
    => \A b \in SamePair :
          IF TextBranch
          THEN KindOf(b) = (IF b.path # NoFile /\ b.path > 0 THEN "text" ELSE "none")
          ELSE KindOf(b) = result.value.kind

C30_Witness ==
    /\ TextBranch
    /\ result.value.kind = "none"
    /\ \E b \in SamePair : KindOf(b) = "text"

\* the step creates, removes or changes the length of the file called name
FileChanged(name) ==
    \/ (name \in DOMAIN upload_dir) # (name \in DOMAIN upload_dir')
    \/ /\ name \in DOMAIN upload_dir
       /\ name \in DOMAIN upload_dir'
       /\ upload_dir'[name] # upload_dir[name]

\* the step is one of upload handler u, which operates on the file name
UploadStepOn(u, name) ==
    /\ pc[u] \in {"multipart", "read_chunk"}
    /\ pc'[u] # pc[u] \/ size'[u] # size[u]
    /\ name = SavedName(token'[u], filename'[u])
    /\ pc[u] = "multipart" => name \notin DOMAIN upload_dir

\* the step is a delete of the token whose record names the file name
DeleteStepOn(name) ==
    /\ pc' = pc
    /\ \E tok \in DOMAIN index_json :
          /\ tok \notin DOMAIN index_json'
          /\ index_json[tok].saved_name = name

\* C31: no handler modifies or removes the file of a token other than its
\* own: an upload writes only the file named by its fresh token, a delete
\* removes only the file named in the record of the token it was given.
C31_OnlyOwnFile ==
    [][ \A name \in (DOMAIN upload_dir) \cup (DOMAIN upload_dir') :
          FileChanged(name)
          => \/ \E u \in Procs : UploadStepOn(u, name)
             \/ DeleteStepOn(name) /\ name \notin DOMAIN upload_dir' ]_vars

C31_Witness ==
    \E t \in deleted, u \in Procs :
        /\ Succeeded(u)
        /\ token[u] # t
        /\ token[u] \in DOMAIN index_json
        /\ dest(u) \in DOMAIN upload_dir
        /\ upload_dir[dest(u)] > 0
        /\ \A n \in DOMAIN upload_dir : n = dest(u)

\* handler u opens its destination in this step and a file is already there
ExistingAtOpen(u) ==
    /\ pc[u] = "multipart"
    /\ pc'[u] # "multipart"
    /\ token'[u] # token[u]
    /\ SavedName(token'[u], filename'[u]) \in DOMAIN upload_dir

\* C32: the destination is opened for exclusive write: when a file already
\* exists at UPLOAD_DIR/saved_name the upload fails and that file is neither
\* truncated nor overwritten.
C32_ExclusiveOpen ==
    [][ \A u \in Procs :
          ExistingAtOpen(u)
          => /\ upload_dir' = upload_dir
             /\ pc'[u] = "done"
             /\ response'[u].status >= 400 ]_vars

\* the middleware has run on a handler that raised an exception of class c
MiddlewareOn(c) ==
    /\ result.kind = "error_middleware"
    /\ arg.raised
    /\ arg.exc.class = c

\* C33: a non-HTTP exception becomes a 500 response with a JSON error field,
\* an entity-too-large condition becomes a JSON error citing the size limit,
\* other HTTP exceptions pass through unchanged, and a cancellation is not
\* converted into a response.
C33_MiddlewareOutcomes ==
    /\ \A c \in {"OSError", "ValueError"} :
          MiddlewareOn(c)
          => /\ ~result.value.raised
             /\ result.value.response =
                    [status |-> 500, json |-> [error |-> arg.exc.text]]
    /\ MiddlewareOn("HTTPRequestEntityTooLarge")
          => /\ ~result.value.raised
             /\ result.value.response.status = 413
             /\ LET limit == IF arg.exc.max_size.m = 0
                             THEN "5.00 GB"
                             ELSE human_readable_size_scaled(arg.exc.max_size.m,
                                                             arg.exc.max_size.e)
                IN  result.value.response.json.error = "file too large, limit: " \o limit
    /\ \A c \in {"HTTPNotFound", "HTTPForbidden", "HTTPFound"} :
          MiddlewareOn(c) => result.value.raised /\ result.value.exc = arg.exc
    /\ MiddlewareOn("CancelledError")
          => result.value.raised /\ result.value.exc = arg.exc

C33_Witness ==
    /\ MiddlewareOn("HTTPRequestEntityTooLarge")
    /\ result.value.response.json.error = "file too large, limit: 1.00 MB"

\* the step is a delete of tok that the index authorises: the record exists
\* and the request comes from the IP it names
AuthorisedDelete(tok) ==
    /\ last_request'.op = "delete"
    /\ last_request'.token = tok
    /\ tok \in DOMAIN index_json
    /\ index_json[tok].ip = last_request'.ip

\* C34: handle_delete runs from load_index to save_index in one piece, so
\* with no upload in flight every authorised delete takes effect whatever
\* the order of the deletes: no deleted token is in the index afterwards
\* and every other record is still there.
C34_DeletesTakeEffect ==
    /\ [](\A tok \in deleted : tok \notin DOMAIN index_json)
    /\ [][ \A tok \in StoredTokens :
             AuthorisedDelete(tok)
             => /\ last_request'.status = 200
                /\ DOMAIN index_json' = (DOMAIN index_json) \ {tok}
                /\ \A t \in DOMAIN index_json' : index_json'[t] = index_json[t] ]_vars

C34_Witness ==
    /\ Cardinality(deleted) >= 2
    /\ \E t \in DOMAIN index_json : t \notin deleted
    /\ last_request.op = "delete"
    /\ last_request.status = 200

\* C37: a delete by the matching IP of a token whose record exists but whose
\* file is gone from disk removes the record and answers success.
C37_DanglingRecordCleared ==
    [][ \A tok \in StoredTokens :
          AuthorisedDelete(tok) /\ index_json[tok].saved_name \notin DOMAIN upload_dir
          => /\ last_request'.status = 200
             /\ tok \notin DOMAIN index_json'
             /\ upload_dir' = upload_dir ]_vars

C37_Witness ==
    \E tok \in deleted :
        /\ last_request = DeleteRequest(tok, last_request.ip, 200)
        /\ tok \notin DOMAIN index_json
        /\ \A f \in Filenames : SavedName(tok, f) \notin DOMAIN upload_dir
        /\ Cardinality(DOMAIN upload_dir) + Cardinality(deleted) < MaxStored
        /\ Cardinality(DOMAIN index_json) + Cardinality(deleted) = MaxStored
        /\ Cardinality(deleted) = 1

ReadOps == {"get_file", "file_info", "list", "listing", "on_message"}

\* C35: the read-only operations (GET /files/{token}, GET /api/file/{token},
\* GET /api/files of both apps, on_message's shared-link lookup) leave the
\* index document and the upload directory unchanged in every state.
C35_ReadsChangeNothing ==
    [][ last_request'.op \in ReadOps
        => index_json' = index_json /\ upload_dir' = upload_dir ]_vars

C35_Witness ==
    /\ last_request.op = "get_file"
    /\ last_request.answer.status = 404
    /\ last_request.token \in DOMAIN index_json
    /\ index_json[last_request.token].saved_name \notin DOMAIN upload_dir
    /\ deleted # {}

\* the requests that carried a file field and have been answered, and those
\* of them whose token has not been deleted since
Answered == {u \in Procs : pc[u] = "done" /\ token[u] # ""}
Kept == {u \in Answered : token[u] \notin deleted}

\* C36: with the quota off and no cancellation or I/O error, after any
\* sequence of non-overlapping uploads and deletes the index and the files
\* on disk are the same whichever of the two upload handlers served each
\* request: they are determined by the requests alone.
C36_SameStoreEitherHandler ==
    Quiet =>
        /\ \A u \in Answered : response[u] = [status |-> 200, body |-> token[u]]
        /\ DOMAIN index_json = {token[u] : u \in Kept}
        /\ DOMAIN upload_dir = {SavedName(token[u], filename[u]) : u \in Kept}
        /\ \A u \in Kept :
              \E ts \in Timestamps :
                  index_json[token[u]] =
                      NewRecord(filename[u], SavedName(token[u], filename[u]),
                                upload_dir[SavedName(token[u], filename[u])],
                                ts, client_ip[u])

C36_Witness ==
    /\ Quiet
    /\ \E u, v \in Procs :
          /\ u \in WebHandlers /\ Succeeded(u)
          /\ v \in BotHandlers /\ Succeeded(v)
          /\ token[u] \in deleted
          /\ token[v] \in DOMAIN index_json
          /\ index_json[token[v]].size = MaxFileBytes

\* the cookie text just checked is the token create_session_token made for
\* username at issued_at
CheckedTokenOf(username, issued_at) ==
    /\ last_request.op = "validate"
    /\ last_request.cookie = session_token(username, issued_at)
    /\ issued_at <= last_request.now

\* C38: a token made by create_session_token for an allowed username
\* validates on every later check while the username is in the allowed-users
\* table and, for a positive TTL, its age is at most the TTL; a token with
\* another part count, an unknown username, a signature that does not match
\* or an issue time that is no integer never validates.
C38_SessionTokenValidity ==
    /\ \A username \in SessionUsers, issued_at \in Clock :
          ( /\ CheckedTokenOf(username, issued_at)
            /\ username \in DOMAIN ALLOWED_USERS
            /\ SESSION_TTL = 0 \/ last_request.now - issued_at <= SESSION_TTL )
          => last_request.valid
    /\ ( /\ last_request.op = "validate"
         /\ last_request.cookie \in ForgedTexts )
          => ~last_request.valid

\* C39: across any number of on_ready events, overlapping at an await or
\* not, the upload server and the listing server are each set up and
\* started at most once.
C39_ServersSetUpOnce ==
    \A server \in {"upload", "listing"} :
        bot.setups[server] <= 1 /\ bot.starts[server] <= 1

\* the origin of an absolute URL: everything before the first "/" that
\* follows "scheme://"
OriginOf(url) ==
    LET from == Len(<<"h", "t", "t", "p", ":", "/", "/">>) + 1
        slashes == {i \in from .. Len(url) : url[i] = "/"}
    IN  IF slashes = {} THEN url
        ELSE SubSeq(url, 1, (CHOOSE i \in slashes : \A j \in slashes : i <= j) - 1)

ExactlyOneSlash(cs) == startswith(cs, <<"/">>) /\ ~startswith(cs, <<"/", "/">>)

\* C40: sanitize_next returns "/" or the percent-decoded input, the latter
\* when it starts with exactly one "/"; the result never starts with "//"
\* and never lacks the leading "/", so the redirect of a login stays on the
\* listing origin.
C40_SanitizeNext ==
    result.kind = "sanitize_next"
    => /\ \/ result.value = <<"/">>
          \/ /\ ~arg.none
             /\ result.value = unquote(arg.chars)
       /\ (~arg.none /\ ExactlyOneSlash(unquote(arg.chars)))
              => result.value = unquote(arg.chars)
       /\ ExactlyOneSlash(result.value)
       /\ OriginOf(result.location) = ListingOrigin

C40_Witness ==
    /\ result.kind = "sanitize_next"
    /\ arg.chars = <<"/", "x", "%", "2", "f">>
    /\ result.value = <<"/", "x", "/">>
    /\ result.location = ListingOrigin \o <<"/", "x", "/">>

====
